---- MODULE Spec2Model ----
(***************************************************************************)
(* Event synchronisation and reconciliation engine of the asset registry   *)
(* backend (asset-registry-backend/eventListener.js), together with the    *)
(* store it writes (db.js) and the contract that emits the events          *)
(* (AssetRegistry.sol).                                                    *)
(*                                                                         *)
(* Every await of the JavaScript code is a step boundary: an action is one *)
(* store or chain operation together with the synchronous code that        *)
(* follows it up to the next operation.  Two processes call the handlers:  *)
(* "live" (the subscription callbacks of startListening) and "backfill"    *)
(* (the chunk loop of syncHistoricalEvents); "live2" is a callback called  *)
(* while an earlier one has not returned.                                  *)
(***************************************************************************)
EXTENDS Integers, Sequences, FiniteSets, TLC

\* ------------------------------------------------------------------ bounds

\* Number of contract transactions mined (the length of the chain log).
MaxTx == 3
\* The same, where live and backfill interleave at every operation.
MaxRaceTx == 2

\* ------------------------------------------------------------- value space

\* JavaScript null, in a string-valued field.
Null == "null"
\* JavaScript undefined, in a string-valued field (falsy, like "").
NoString == ""
\* JavaScript undefined, in a number-valued field.
NoNumber == 0 - 1

\* Asset ids: id = keccak256(msg.sender, description, block.timestamp), one per
\* registering sender below; they register in this order.
AssetIds == <<"0xa1", "0xa2">>
\* The sender that registers each asset id.
Registrants == <<"0xAA", "0xBb">>
\* Addresses as the chain reports them (checksummed, mixed case).
Addresses == {"0xAA", "0xBb", "0xCC"}
\* The one description used by the senders.
Description == "Doc"
\* How far the block of a transaction lies above the previous height.
BlockGaps == {1, 10}

\* String.prototype.toLowerCase on the addresses above.
toLowerCase(s) ==
    CASE s = "0xAA" -> "0xaa"
      [] s = "0xBb" -> "0xbb"
      [] s = "0xCC" -> "0xcc"
      [] OTHER -> s

\* block.timestamp of block n.
BlockTimestamp(n) == 1000 + n

\* The invocations of the subscription callbacks that can be under way at
\* once: the emitter calls an async callback and does not await it.
Callbacks == {"live", "live2"}

Procs == Callbacks \cup {"backfill"}

VARIABLES
    chain,        \* the contract's event log, in chain order
    height,       \* current block height of the chain
    assets,       \* table Asset: a set of rows
    transfers,    \* table Transfer: rows in insertion order (id = position)
    h,            \* per process: the handler invocation in flight
    sync,         \* local variables of syncHistoricalEvents
    isListening,  \* EventListener.isListening
    cursor,       \* next chain position the subscription delivers
    last,         \* history: the last two handler calls made in sequence
    applied,      \* history: per chain position, how often a handler was called in sequence
    syncLog,      \* history of the syncs that run alone: the store when the latest
                  \* read the chain height, the events it has handled, the chunks
                  \* whose query failed, and the gap earlier syncs left; of every
                  \* sync, the block ranges it has queried
    skipped,      \* history: whether the subscription has missed an event of the chain
    listeners,    \* number of callbacks registered on the contract
    liveLog,      \* history: the last call of startListening or stopListening
    via,          \* history: the envelope and the provider of the last handler call
                  \* made with a chosen envelope
    shutdown      \* the hosting process: running, closing the store after a
                  \* shutdown signal, or exited

vars == <<chain, height, assets, transfers, h, sync, isListening, cursor,
          last, applied, syncLog, skipped, listeners, liveLog, via, shutdown>>

\* ------------------------------------------------------------ the contract

\* Position in the log of the latest event about asset id, 0 if none.
LatestEvent(log, id) ==
    LET S == {i \in 1..Len(log) : log[i].id = id}
    IN  IF S = {} THEN 0 ELSE CHOOSE i \in S : \A j \in S : j <= i

\* _assets[id].owner, address(0) rendered as Null.
ContractOwner(log, id) ==
    IF LatestEvent(log, id) = 0 THEN Null ELSE log[LatestEvent(log, id)].owner

\* The log entry a transaction produces: one event, with the transaction's
\* hash and block.  Every transaction calls the contract directly, so a
\* transaction hash names exactly one event.
LogEntry(kind, id, owner, description, timestamp, n, block) ==
    [kind |-> kind, id |-> id, owner |-> owner, description |-> description,
     timestamp |-> timestamp,
     transactionHash |-> "0xt" \o ToString(n), blockNumber |-> block]

\* registerNewAsset: emits AssetRegistered(id, msg.sender, description, block.timestamp).
registerNewAsset(k, gap, max) ==
    /\ Len(chain) < max
    /\ ContractOwner(chain, AssetIds[k]) = Null
    /\ \A j \in 1..(k - 1) : ContractOwner(chain, AssetIds[j]) # Null
    /\ chain' = Append(chain,
          LogEntry("AssetRegistered", AssetIds[k], Registrants[k], Description,
                   BlockTimestamp(height + gap), Len(chain) + 1, height + gap))
    /\ height' = height + gap
    /\ UNCHANGED <<assets, transfers, h, sync, isListening, cursor,
                   last, applied, syncLog, skipped,
                   listeners, liveLog, via, shutdown>>

\* transferAsset: emits AssetTransferred(id, newOwner).
transferAsset(id, newOwner, gap, max) ==
    /\ Len(chain) < max
    /\ ContractOwner(chain, id) # Null
    /\ ContractOwner(chain, id) # newOwner
    /\ chain' = Append(chain,
          LogEntry("AssetTransferred", id, newOwner, NoString, NoNumber,
                   Len(chain) + 1, height + gap))
    /\ height' = height + gap
    /\ UNCHANGED <<assets, transfers, h, sync, isListening, cursor,
                   last, applied, syncLog, skipped,
                   listeners, liveLog, via, shutdown>>

\* --------------------------------------------------- the chain event source

\* The envelope of an event delivered by contract.on: the metadata is nested
\* under `log`.
PayloadOf(e) ==
    [kind |-> e.kind, id |-> e.id, owner |-> e.owner,
     description |-> e.description, timestamp |-> e.timestamp,
     hasLog |-> TRUE,
     log |-> [transactionHash |-> e.transactionHash, hash |-> NoString,
              blockNumber |-> e.blockNumber],
     transactionHash |-> NoString, hash |-> NoString, blockNumber |-> NoNumber]

\* The envelope of an event returned by queryFilter: the metadata is inline.
EventLogOf(e) ==
    [kind |-> e.kind, id |-> e.id, owner |-> e.owner,
     description |-> e.description, timestamp |-> e.timestamp,
     hasLog |-> FALSE,
     log |-> [transactionHash |-> NoString, hash |-> NoString,
              blockNumber |-> NoNumber],
     transactionHash |-> e.transactionHash, hash |-> NoString,
     blockNumber |-> e.blockNumber]

\* The shapes an event envelope can have: the metadata under `log` or inline,
\* the hash named transactionHash or hash.
Shapes == {"log.transactionHash", "log.hash", "transactionHash", "hash"}

\* The shapes of an envelope that lacks the transaction hash, the block
\* number or both, with what it has under `log` or inline.
DroppedShapes ==
    {"log.noHash", "log.noBlockNumber", "log.empty",
     "noHash", "noBlockNumber", "empty"}

\* The shapes of an envelope that carries the transaction hash and the block
\* number 0, under `log` or inline.
ZeroShapes == {"log.blockNumber0", "blockNumber0"}

\* The event e in the envelope of a shape.
Envelope(shape, e) ==
    LET meta == [transactionHash |->
                     IF shape \in {"log.transactionHash", "transactionHash",
                                   "log.noBlockNumber", "noBlockNumber"}
                                      \cup ZeroShapes
                     THEN e.transactionHash ELSE NoString,
                 hash |-> IF shape \in {"log.hash", "hash"}
                          THEN e.transactionHash ELSE NoString,
                 blockNumber |->
                     IF shape \in {"log.noBlockNumber", "noBlockNumber",
                                   "log.empty", "empty"}
                     THEN NoNumber
                     ELSE IF shape \in ZeroShapes THEN 0 ELSE e.blockNumber]
        none == [transactionHash |-> NoString, hash |-> NoString,
                 blockNumber |-> NoNumber]
        nested == shape \in {"log.transactionHash", "log.hash", "log.noHash",
                             "log.noBlockNumber", "log.empty", "log.blockNumber0"}
    IN  [kind |-> e.kind, id |-> e.id, owner |-> e.owner,
         description |-> e.description, timestamp |-> e.timestamp,
         hasLog |-> nested,
         log |-> IF nested THEN meta ELSE none,
         transactionHash |-> IF nested THEN NoString ELSE meta.transactionHash,
         hash |-> IF nested THEN NoString ELSE meta.hash,
         blockNumber |-> IF nested THEN NoNumber ELSE meta.blockNumber]

\* contract.queryFilter(filter, fromBlock, toBlock): the positions, in chain
\* order, of the events of one kind in the block range.
RECURSIVE queryFilter(_, _, _, _, _)
queryFilter(log, kind, fromBlock, toBlock, i) ==
    IF i > Len(log) THEN <<>>
    ELSE IF /\ log[i].kind = kind
            /\ log[i].blockNumber >= fromBlock
            /\ log[i].blockNumber <= toBlock
         THEN <<i>> \o queryFilter(log, kind, fromBlock, toBlock, i + 1)
         ELSE queryFilter(log, kind, fromBlock, toBlock, i + 1)

\* What provider.getBlock does when called: it returns the block, returns
\* null, or rejects.
GetBlockModes == {"block", "null", "throws"}

\* provider.getBlock(n) when it does not reject: the block when the provider
\* has it, nothing otherwise.  net is the provider as the caller meets it:
\* the chain height and what getBlock does.
getBlock(net, n) ==
    IF net.getBlock = "block" /\ n >= 0 /\ n <= net.height
    THEN <<BlockTimestamp(n)>> ELSE <<>>

\* Date.now(): the local wall clock, which no block timestamp equals.
DateNow == 0 - 2

\* ------------------------------------------------------------- the store

\* findByPk with the key left out of the query: any row of the table.
findByPk_AnyRow(rows, id) ==
    IF rows # {} THEN <<CHOOSE r \in rows : TRUE>> ELSE <<>>

\* Asset.findByPk(id): the row, or nothing.
findByPk(rows, id) ==
    IF \E r \in rows : r.id = id
    THEN <<CHOOSE r \in rows : r.id = id>>
    ELSE <<>>

\* Asset.create on a table whose id is not a primary key.
AssetCreate_NoPrimaryKey(rows, row) == [ok |-> TRUE, rows |-> rows \cup {row}]

\* Asset.create(row): rejected when the primary key is taken.
AssetCreate(rows, row) ==
    IF \E r \in rows : r.id = row.id
    THEN [ok |-> FALSE, rows |-> rows]
    ELSE [ok |-> TRUE, rows |-> rows \cup {row}]

\* asset.save() after asset.owner = owner: UPDATE Assets SET owner WHERE id.
AssetSave(rows, id, owner) ==
    {IF r.id = id THEN [r EXCEPT !.owner = owner] ELSE r : r \in rows}

\* Transfer.findOne({where: {transactionHash}}): whether a row is found.
TransferFindOne(rows, hash) ==
    \E i \in 1..Len(rows) : rows[i].transactionHash = hash

\* The column declared without `unique: true`.
UniqueHash_Off(rows, row) == TRUE

\* The unique constraint on Transfer.transactionHash.
UniqueHash(rows, row) ==
    \A i \in 1..Len(rows) : rows[i].transactionHash # row.transactionHash

\* Transfer.create written as an upsert on transactionHash.
TransferCreate_Upsert(assetRows, rows, row) ==
    IF findByPk(assetRows, row.assetId) = <<>>
    THEN [ok |-> FALSE, rows |-> rows]
    ELSE IF UniqueHash(rows, row)
         THEN [ok |-> TRUE, rows |-> Append(rows, row)]
         ELSE [ok |-> TRUE,
               rows |-> [i \in 1..Len(rows) |->
                            IF rows[i].transactionHash = row.transactionHash
                            THEN row ELSE rows[i]]]

\* Transfer.create(row): rejected when the transaction hash is already stored
\* or the asset does not exist (foreign key).
TransferCreate(assetRows, rows, row) ==
    IF UniqueHash(rows, row) /\ findByPk(assetRows, row.assetId) # <<>>
    THEN [ok |-> TRUE, rows |-> Append(rows, row)]
    ELSE [ok |-> FALSE, rows |-> rows]

\* ----------------------------------------------------------- the normalizer

\* const log = event.log || event
logOf(event) ==
    IF event.hasLog THEN event.log
    ELSE [transactionHash |-> event.transactionHash, hash |-> event.hash,
          blockNumber |-> event.blockNumber]

\* The normalizer reading log.transactionHash only.
transferHashOf_TransactionHashOnly(event) == logOf(event).transactionHash

\* const transferHash = log.transactionHash || log.hash
transferHashOf(event) ==
    IF logOf(event).transactionHash # NoString
    THEN logOf(event).transactionHash
    ELSE logOf(event).hash

\* const blockNumber = log.blockNumber
blockNumberOf(event) == logOf(event).blockNumber

\* The test written if (transferHash).
HasMetadata_HashOnly(event) == transferHashOf(event) # NoString

\* if (transferHash && blockNumber): both present and truthy.
HasMetadata(event) ==
    /\ transferHashOf(event) # NoString
    /\ blockNumberOf(event) # NoNumber
    /\ blockNumberOf(event) # 0

\* ------------------------------------------------------------ the handlers

\* A handler invocation: the operation it is about to issue (pc), the chain
\* position of its event (idx) and its local variables.  ev is the event as
\* delivered, st the store, [assets, transfers].
IdleHandler ==
    [pc |-> "idle", idx |-> 0, asset |-> <<>>,
     previousOwner |-> Null, blockTimestamp |-> NoNumber]

\* The first operation of the handler of an event.
StartHandler(i, ev) ==
    [IdleHandler EXCEPT
        !.pc = IF ev.kind = "AssetRegistered" THEN "reg.findByPk" ELSE "tr.findByPk",
        !.idx = i]

\* Where a handler goes once its Asset part is over.
AfterAsset(ev, findOne) == IF HasMetadata(ev) THEN findOne ELSE "done"

\* handleAssetRegistered creating the asset without looking at what it found.
RegFindByPk_NoCheck(st, hh, ev, net) ==
    [st |-> st,
     h  |-> [hh EXCEPT !.asset = findByPk(st.assets, ev.id), !.pc = "reg.create"]]

\* handleAssetRegistered returning at once when the asset is stored.
RegFindByPk_ReturnIfStored(st, hh, ev, net) ==
    LET found == findByPk(st.assets, ev.id)
    IN  [st |-> st,
         h  |-> [hh EXCEPT !.asset = found,
                           !.pc = IF found = <<>> THEN "reg.create" ELSE "done"]]

\* handleAssetRegistered writing the event's owner to the row it found.
RegFindByPk_Refresh(st, hh, ev, net) ==
    LET found == findByPk(st.assets, ev.id)
    IN  [st |-> IF found = <<>> THEN st
                ELSE [st EXCEPT !.assets =
                         AssetSave(st.assets, ev.id, toLowerCase(ev.owner))],
         h  |-> [hh EXCEPT !.asset = found,
                           !.pc = IF found = <<>> THEN "reg.create"
                                  ELSE AfterAsset(ev, "reg.findOne")]]

\* handleAssetRegistered: const existingAsset = await Asset.findByPk(assetId)
RegFindByPk(st, hh, ev, net) ==
    LET found == findByPk(st.assets, ev.id)
    IN  [st |-> st,
         h  |-> [hh EXCEPT !.asset = found,
                           !.pc = IF found = <<>> THEN "reg.create"
                                  ELSE AfterAsset(ev, "reg.findOne")]]

\* handleAssetRegistered: await Asset.create({...})
RegCreate(st, hh, ev, net) ==
    LET r == AssetCreate(st.assets,
                 [id |-> ev.id, owner |-> toLowerCase(ev.owner),
                  description |-> ev.description,
                  timestamp |-> ev.timestamp])
    IN  IF r.ok
        THEN [st |-> [st EXCEPT !.assets = r.rows],
              h  |-> [hh EXCEPT !.pc = AfterAsset(ev, "reg.findOne")]]
        ELSE [st |-> st, h |-> [hh EXCEPT !.pc = "threw"]]

\* handleAssetRegistered: const existingTransfer = await Transfer.findOne(...)
RegFindOne(st, hh, ev, net) ==
    [st |-> st,
     h  |-> [hh EXCEPT !.pc = IF TransferFindOne(st.transfers, transferHashOf(ev))
                              THEN "done" ELSE "reg.insert"]]

\* The Transfer row of a registration.
RegisteredRow(ev) ==
    [assetId |-> ev.id, fromOwner |-> Null, toOwner |-> toLowerCase(ev.owner),
     blockNumber |-> blockNumberOf(ev), transactionHash |-> transferHashOf(ev),
     timestamp |-> ev.timestamp]

\* handleAssetRegistered taking the row's timestamp from provider.getBlock, as
\* handleAssetTransferred does.
RegInsert_BlockTime(st, hh, ev, net) ==
    IF net.getBlock = "throws"
    THEN [st |-> st, h |-> [hh EXCEPT !.pc = "threw"]]
    ELSE LET block == getBlock(net, blockNumberOf(ev))
             r == TransferCreate(st.assets, st.transfers,
                      [RegisteredRow(ev) EXCEPT
                          !.timestamp = IF block # <<>> THEN block[1] ELSE DateNow])
         IN  IF r.ok
             THEN [st |-> [st EXCEPT !.transfers = r.rows],
                   h  |-> [hh EXCEPT !.pc = "done"]]
             ELSE [st |-> st, h |-> [hh EXCEPT !.pc = "threw"]]

\* handleAssetRegistered: await Transfer.create({fromOwner: null, ...})
RegInsert(st, hh, ev, net) ==
    LET r == TransferCreate(st.assets, st.transfers, RegisteredRow(ev))
    IN  IF r.ok
        THEN [st |-> [st EXCEPT !.transfers = r.rows], h |-> [hh EXCEPT !.pc = "done"]]
        ELSE [st |-> st, h |-> [hh EXCEPT !.pc = "threw"]]

\* handleAssetTransferred going on to the transfer record when no asset is found.
TrFindByPk_Upsert(st, hh, ev, net) ==
    LET found == findByPk(st.assets, ev.id)
    IN  IF found = <<>>
        THEN [st |-> st, h |-> [hh EXCEPT !.pc = AfterAsset(ev, "tr.findOne")]]
        ELSE [st |-> st,
              h  |-> [hh EXCEPT !.asset = found, !.previousOwner = found[1].owner,
                                !.pc = "tr.save"]]

\* handleAssetTransferred reading previousOwner after the assignment to asset.owner.
TrFindByPk_LateCapture(st, hh, ev, net) ==
    LET found == findByPk(st.assets, ev.id)
    IN  IF found = <<>>
        THEN [st |-> st, h |-> [hh EXCEPT !.pc = "done"]]
        ELSE [st |-> st,
              h  |-> [hh EXCEPT !.asset = found,
                                !.previousOwner = toLowerCase(ev.owner),
                                !.pc = "tr.save"]]

\* handleAssetTransferred: const asset = await Asset.findByPk(assetId), then
\* previousOwner = asset.owner and asset.owner = newOwnerAddress on the instance.
TrFindByPk(st, hh, ev, net) ==
    LET found == findByPk(st.assets, ev.id)
    IN  IF found = <<>>
        THEN [st |-> st, h |-> [hh EXCEPT !.pc = "done"]]
        ELSE [st |-> st,
              h  |-> [hh EXCEPT !.asset = found, !.previousOwner = found[1].owner,
                                !.pc = "tr.save"]]

\* handleAssetTransferred: await asset.save().  The instance writes its owner
\* only if the assignment changed it.
TrSave(st, hh, ev, net) ==
    [st |-> IF hh.asset[1].owner = toLowerCase(ev.owner) THEN st
            ELSE [st EXCEPT !.assets =
                     AssetSave(st.assets, ev.id, toLowerCase(ev.owner))],
     h  |-> [hh EXCEPT !.pc = AfterAsset(ev, "tr.findOne")]]

\* handleAssetTransferred with the test of existingTransfer negated.
TrFindOne_Inverted(st, hh, ev, net) ==
    [st |-> st,
     h  |-> [hh EXCEPT !.pc = IF TransferFindOne(st.transfers, transferHashOf(ev))
                              THEN "tr.getBlock" ELSE "done"]]

\* handleAssetTransferred: const existingTransfer = await Transfer.findOne(...)
TrFindOne(st, hh, ev, net) ==
    [st |-> st,
     h  |-> [hh EXCEPT !.pc = IF TransferFindOne(st.transfers, transferHashOf(ev))
                              THEN "done" ELSE "tr.getBlock"]]

\* handleAssetTransferred: const block = await this.provider.getBlock(blockNumber)
\* and the fallback to Date.now(); a rejection is not caught in the handler.
TrGetBlock(st, hh, ev, net) ==
    IF net.getBlock = "throws"
    THEN [st |-> st, h |-> [hh EXCEPT !.pc = "threw"]]
    ELSE LET block == getBlock(net, blockNumberOf(ev))
         IN  [st |-> st,
              h  |-> [hh EXCEPT !.blockTimestamp =
                                    IF block # <<>> THEN block[1] ELSE DateNow,
                                !.pc = "tr.insert"]]

\* The Transfer row of a transfer with toOwner as the event carries it.
TransferredRow_RawOwner(hh, ev) ==
    [assetId |-> ev.id, fromOwner |-> hh.previousOwner,
     toOwner |-> ev.owner,
     blockNumber |-> blockNumberOf(ev), transactionHash |-> transferHashOf(ev),
     timestamp |-> hh.blockTimestamp]

\* The Transfer row of a transfer.
TransferredRow(hh, ev) ==
    [assetId |-> ev.id, fromOwner |-> hh.previousOwner,
     toOwner |-> toLowerCase(ev.owner),
     blockNumber |-> blockNumberOf(ev), transactionHash |-> transferHashOf(ev),
     timestamp |-> hh.blockTimestamp]

\* handleAssetTransferred: await Transfer.create({fromOwner: previousOwner, ...})
TrInsert(st, hh, ev, net) ==
    LET r == TransferCreate(st.assets, st.transfers, TransferredRow(hh, ev))
    IN  IF r.ok
        THEN [st |-> [st EXCEPT !.transfers = r.rows], h |-> [hh EXCEPT !.pc = "done"]]
        ELSE [st |-> st, h |-> [hh EXCEPT !.pc = "threw"]]

HandlerPcs ==
    {"reg.findByPk", "reg.create", "reg.findOne", "reg.insert",
     "tr.findByPk", "tr.save", "tr.findOne", "tr.getBlock", "tr.insert"}

\* One operation of a handler and the code up to its next operation.
HandlerStep(st, hh, ev, net) ==
    CASE hh.pc = "reg.findByPk" -> RegFindByPk(st, hh, ev, net)
      [] hh.pc = "reg.create"   -> RegCreate(st, hh, ev, net)
      [] hh.pc = "reg.findOne"  -> RegFindOne(st, hh, ev, net)
      [] hh.pc = "reg.insert"   -> RegInsert(st, hh, ev, net)
      [] hh.pc = "tr.findByPk"  -> TrFindByPk(st, hh, ev, net)
      [] hh.pc = "tr.save"      -> TrSave(st, hh, ev, net)
      [] hh.pc = "tr.findOne"   -> TrFindOne(st, hh, ev, net)
      [] hh.pc = "tr.getBlock"  -> TrGetBlock(st, hh, ev, net)
      [] hh.pc = "tr.insert"    -> TrInsert(st, hh, ev, net)
      [] OTHER -> [st |-> st, h |-> hh]

\* A handler run from its first operation to its end with nothing in between.
RECURSIVE RunHandler(_, _, _, _)
RunHandler(st, hh, ev, net) ==
    IF hh.pc \in HandlerPcs
    THEN LET r == HandlerStep(st, hh, ev, net)
         IN  RunHandler(r.st, r.h, ev, net)
    ELSE [st |-> st, h |-> hh]

\* await this.handleAssetRegistered(...) / handleAssetTransferred(...) run alone:
\* the store it leaves.
handleEvent(st, i, ev, net) == RunHandler(st, StartHandler(i, ev), ev, net).st

\* ------------------------------------------------------- the controllers

\* const BLOCK_CHUNK_SIZE = 10
BLOCK_CHUNK_SIZE == 10

Min(a, b) == IF a <= b THEN a ELSE b

\* The provider when every call of it succeeds.
Up == [height |-> height, getBlock |-> "block"]

\* The store as one value.
Store == [assets |-> assets, transfers |-> transfers]

EmptyStore == [assets |-> {}, transfers |-> <<>>]

IdleSync ==
    [pc |-> "idle", fromBlock |-> 0, currentBlock |-> 0, startBlock |-> 0,
     endBlock |-> 0, phase |-> "none", queue |-> <<>>, errors |-> 0]

\* The event at chain position i as process p receives it: the subscription
\* hands over a payload, queryFilter an event log.
EventOf(p, i) ==
    IF p \in Callbacks THEN PayloadOf(chain[i]) ELSE EventLogOf(chain[i])

\* A handler that has issued its first operation and has not ended.
InProgress(p) == h[p].pc \in HandlerPcs \ {"reg.findByPk", "tr.findByPk"}

\* Whether no handler is between its first operation and its end.
Quiet == \A p \in Procs : ~InProgress(p)

\* The loop test written startBlock < currentBlock.
LoopEntry_Exclusive(s) ==
    IF s.startBlock < s.currentBlock
    THEN [s EXCEPT !.endBlock = Min(s.startBlock + BLOCK_CHUNK_SIZE - 1, s.currentBlock),
                   !.phase = "none", !.queue = <<>>, !.pc = "queryRegistered"]
    ELSE [s EXCEPT !.phase = "none", !.queue = <<>>, !.pc = "returned"]

\* The loop body querying the transfers of the chunk first.
LoopEntry_TransfersFirst(s) ==
    IF s.startBlock <= s.currentBlock
    THEN [s EXCEPT !.endBlock = Min(s.startBlock + BLOCK_CHUNK_SIZE - 1, s.currentBlock),
                   !.phase = "none", !.queue = <<>>, !.pc = "queryTransferred"]
    ELSE [s EXCEPT !.phase = "none", !.queue = <<>>, !.pc = "returned"]

\* The chunk's end written startBlock + BLOCK_CHUNK_SIZE.
LoopEntry_Overlap(s) ==
    IF s.startBlock <= s.currentBlock
    THEN [s EXCEPT !.endBlock = Min(s.startBlock + BLOCK_CHUNK_SIZE, s.currentBlock),
                   !.phase = "none", !.queue = <<>>, !.pc = "queryRegistered"]
    ELSE [s EXCEPT !.phase = "none", !.queue = <<>>, !.pc = "returned"]

\* for (startBlock ...; startBlock <= currentBlock; ...) { endBlock = Math.min(...)
LoopEntry(s) ==
    IF s.startBlock <= s.currentBlock
    THEN [s EXCEPT !.endBlock = Min(s.startBlock + BLOCK_CHUNK_SIZE - 1, s.currentBlock),
                   !.phase = "none", !.queue = <<>>, !.pc = "queryRegistered"]
    ELSE [s EXCEPT !.phase = "none", !.queue = <<>>, !.pc = "returned"]

\* startBlock += BLOCK_CHUNK_SIZE, then the loop test.
NextChunk(s) == LoopEntry([s EXCEPT !.startBlock = s.startBlock + BLOCK_CHUNK_SIZE])

\* The events of a query are handled one after the other; with none left the
\* loop body goes on.
WithQueue(s, phase, q) ==
    IF q # <<>>
    THEN [sync |-> [s EXCEPT !.pc = "handler", !.phase = phase, !.queue = q],
          h    |-> StartHandler(q[1], EventLogOf(chain[q[1]]))]
    ELSE [sync |-> [s EXCEPT !.pc = IF phase = "reg" THEN "queryTransferred" ELSE "delay",
                             !.phase = phase, !.queue = <<>>],
          h    |-> IdleHandler]

\* The chunk's catch rethrowing what it caught.
ChunkCatch_Rethrow(s) ==
    [s EXCEPT !.errors = s.errors + 1, !.phase = "none", !.queue = <<>>, !.pc = "threw"]

\* The chunk's catch leaving the loop.
ChunkCatch_Break(s) ==
    [s EXCEPT !.errors = s.errors + 1, !.phase = "none", !.queue = <<>>, !.pc = "returned"]

\* The chunk's catch going back to the loop test without the loop's increment.
ChunkCatch_Retry(s) == LoopEntry([s EXCEPT !.errors = s.errors + 1])

\* catch (chunkError) { console.error(...) }: the loop continues with the
\* next chunk.
ChunkCatch(s) == NextChunk([s EXCEPT !.errors = s.errors + 1])

\* What the chunk loop does when the handler it awaits ends: the next event
\* of the query, or the catch of the chunk.
AfterHandler(s, endPc) ==
    IF endPc = "threw"
    THEN [sync |-> ChunkCatch(s), h |-> IdleHandler]
    ELSE WithQueue(s, s.phase, Tail(s.queue))

\* History of the syncs: no sync has left a failed chunk behind.
NoGap == [open |-> FALSE, pre |-> [assets |-> {}, transfers |-> <<>>], from |-> 0]

\* History of the syncs, when a new sync is called: the store before the first
\* sync that skipped a chunk and the least fromBlock of the syncs that did,
\* until a sync from that block or an earlier one returns with no chunk skipped.
GapAtCall ==
    IF sync.pc = "returned" /\ sync.errors > 0
    THEN IF syncLog.gap.open
         THEN [syncLog.gap EXCEPT !.from = Min(syncLog.gap.from, sync.fromBlock)]
         ELSE [open |-> TRUE, pre |-> syncLog.pre, from |-> sync.fromBlock]
    ELSE IF /\ sync.pc = "returned"
            /\ syncLog.gap.open
            /\ sync.fromBlock <= syncLog.gap.from
         THEN NoGap
         ELSE syncLog.gap

\* The environment calls syncHistoricalEvents(fromBlock); the call issues
\* provider.getBlockNumber().
CallSync(fromBlock, keep, gaps) ==
    /\ sync.pc \in {"idle", "returned", "threw"}
    /\ sync' = [IdleSync EXCEPT !.pc = "getBlockNumber", !.fromBlock = fromBlock,
                                !.startBlock = fromBlock]
    /\ syncLog' = IF keep
                  THEN [syncLog EXCEPT !.gap = IF gaps THEN GapAtCall ELSE @,
                                       !.seen = {}, !.failed = {}, !.ranges = <<>>]
                  ELSE [syncLog EXCEPT !.ranges = <<>>]
    /\ UNCHANGED <<chain, height, assets, transfers, h, isListening, cursor,
                   last, applied, skipped,
                   listeners, liveLog, via, shutdown>>

\* const currentBlock = await this.provider.getBlockNumber()
SyncGetBlockNumber(keep) ==
    /\ sync.pc = "getBlockNumber"
    /\ sync' = LoopEntry([sync EXCEPT !.currentBlock = height])
    /\ syncLog' = IF keep THEN [syncLog EXCEPT !.pre = Store] ELSE syncLog
    /\ UNCHANGED <<chain, height, assets, transfers, h, isListening, cursor,
                   last, applied, skipped,
                   listeners, liveLog, via, shutdown>>

\* provider.getBlockNumber() rejects: the outer catch logs and rethrows.
SyncGetBlockNumberThrows ==
    /\ sync.pc = "getBlockNumber"
    /\ sync' = [sync EXCEPT !.pc = "threw"]
    /\ UNCHANGED <<chain, height, assets, transfers, h, isListening, cursor,
                   last, applied, syncLog, skipped,
                   listeners, liveLog, via, shutdown>>

\* A queryFilter of the chunk rejects: the catch of the chunk.
SyncQueryThrows ==
    /\ sync.pc \in {"queryRegistered", "queryTransferred"}
    /\ sync' = ChunkCatch(sync)
    /\ syncLog' = [syncLog EXCEPT
                      !.failed = @ \cup {sync.startBlock},
                      !.ranges = IF sync.pc = "queryRegistered"
                                 THEN Append(@, <<sync.startBlock, sync.endBlock>>)
                                 ELSE @]
    /\ UNCHANGED <<chain, height, assets, transfers, h, isListening, cursor,
                   last, applied, skipped,
                   listeners, liveLog, via, shutdown>>

\* const registeredEvents = await this.contract.queryFilter(registeredFilter, ...)
SyncQueryRegistered ==
    /\ sync.pc = "queryRegistered"
    /\ LET r == WithQueue(sync, "reg",
                   queryFilter(chain, "AssetRegistered", sync.startBlock, sync.endBlock, 1))
       IN  /\ sync' = r.sync
           /\ h' = [h EXCEPT !["backfill"] = r.h]
    /\ syncLog' = [syncLog EXCEPT
                      !.ranges = Append(@, <<sync.startBlock, sync.endBlock>>)]
    /\ UNCHANGED <<chain, height, assets, transfers, isListening, cursor,
                   last, applied, skipped,
                   listeners, liveLog, via, shutdown>>

\* const transferredEvents = await this.contract.queryFilter(transferredFilter, ...)
SyncQueryTransferred ==
    /\ sync.pc = "queryTransferred"
    /\ LET r == WithQueue(sync, "tr",
                   queryFilter(chain, "AssetTransferred", sync.startBlock, sync.endBlock, 1))
       IN  /\ sync' = r.sync
           /\ h' = [h EXCEPT !["backfill"] = r.h]
    /\ UNCHANGED <<chain, height, assets, transfers, isListening, cursor,
                   last, applied, syncLog, skipped,
                   listeners, liveLog, via, shutdown>>

\* await new Promise(resolve => setTimeout(resolve, 100)), then the next chunk.
SyncDelay ==
    /\ sync.pc = "delay"
    /\ sync' = NextChunk(sync)
    /\ UNCHANGED <<chain, height, assets, transfers, h, isListening, cursor,
                   last, applied, syncLog, skipped,
                   listeners, liveLog, via, shutdown>>

\* History of the calls of startListening and stopListening: the call, whether
\* the listener was listening when it was made, and what it did to the contract.
NoCall == [call |-> "none", was |-> FALSE, did |-> "nothing"]

\* startListening registering its callbacks whether it is listening or not.
startListening_Unguarded(keep) ==
    /\ isListening' = TRUE
    /\ listeners' = listeners + 2
    /\ cursor' = Len(chain) + 1
    /\ skipped' = (skipped \/ cursor <= Len(chain))
    /\ liveLog' = IF keep
                  THEN [call |-> "startListening", was |-> isListening, did |-> "on"]
                  ELSE liveLog
    /\ UNCHANGED <<chain, height, assets, transfers, h, sync,
                   last, applied, syncLog, via, shutdown>>

\* startListening: returns at once when already listening; otherwise sets
\* isListening and registers a callback for each of the two event kinds, which
\* receive the events mined from now on.
startListening(keep) ==
    /\ IF isListening
       THEN /\ liveLog' = IF keep
                          THEN [call |-> "startListening", was |-> TRUE, did |-> "nothing"]
                          ELSE liveLog
            /\ UNCHANGED <<isListening, listeners, cursor, skipped>>
       ELSE /\ isListening' = TRUE
            /\ listeners' = listeners + 2
            /\ cursor' = Len(chain) + 1
            /\ skipped' = (skipped \/ cursor <= Len(chain))
            /\ liveLog' = IF keep
                          THEN [call |-> "startListening", was |-> FALSE, did |-> "on"]
                          ELSE liveLog
    /\ UNCHANGED <<chain, height, assets, transfers, h, sync,
                   last, applied, syncLog, via, shutdown>>

\* stopListening clearing the flag and leaving the callbacks registered.
StopListener_FlagOnly(keep) ==
    /\ IF isListening
       THEN /\ isListening' = FALSE
            /\ liveLog' = IF keep
                          THEN [call |-> "stopListening", was |-> TRUE,
                                did |-> "removeAllListeners"]
                          ELSE liveLog
            /\ UNCHANGED listeners
       ELSE /\ liveLog' = IF keep
                          THEN [call |-> "stopListening", was |-> FALSE, did |-> "nothing"]
                          ELSE liveLog
            /\ UNCHANGED <<isListening, listeners>>
    /\ UNCHANGED <<chain, height, assets, transfers, h, sync, cursor,
                   last, applied, syncLog, skipped, via>>

\* stopListening: removeAllListeners and isListening = false when listening,
\* nothing otherwise.  What it does to the listener.
StopListener(keep) ==
    /\ IF isListening
       THEN /\ isListening' = FALSE
            /\ listeners' = 0
            /\ liveLog' = IF keep
                          THEN [call |-> "stopListening", was |-> TRUE,
                                did |-> "removeAllListeners"]
                          ELSE liveLog
       ELSE /\ liveLog' = IF keep
                          THEN [call |-> "stopListening", was |-> FALSE, did |-> "nothing"]
                          ELSE liveLog
            /\ UNCHANGED <<isListening, listeners>>
    /\ UNCHANGED <<chain, height, assets, transfers, h, sync, cursor,
                   last, applied, syncLog, skipped, via>>

\* A call of stopListening.
stopListening(keep) ==
    /\ StopListener(keep)
    /\ UNCHANGED shutdown

\* The subscription calls the callback of the next event; the callback calls
\* the handler, which issues its first operation.
LiveDeliver ==
    /\ isListening
    /\ cursor <= Len(chain)
    /\ h["live"].pc = "idle"
    /\ h' = [h EXCEPT !["live"] = StartHandler(cursor, PayloadOf(chain[cursor]))]
    /\ cursor' = cursor + 1
    /\ UNCHANGED <<chain, height, assets, transfers, sync, isListening,
                   last, applied, syncLog, skipped,
                   listeners, liveLog, via, shutdown>>

\* What the end of its handler means for process p: the subscription callback
\* returns (its catch only logs), the chunk loop goes on.
Ended(p, endPc) ==
    /\ h' = [h EXCEPT ![p] = IF p \in Callbacks THEN IdleHandler
                             ELSE AfterHandler(sync, endPc).h]
    /\ sync' = IF p \in Callbacks THEN sync ELSE AfterHandler(sync, endPc).sync

\* Process p has performed an operation of its handler, with result r.
Performed(p, r) ==
    /\ assets' = r.st.assets
    /\ transfers' = r.st.transfers
    /\ IF r.h.pc \in {"done", "threw"}
       THEN Ended(p, r.h.pc)
       ELSE /\ h' = [h EXCEPT ![p] = r.h]
            /\ sync' = sync
    /\ UNCHANGED <<chain, height, isListening, cursor, last, applied, syncLog, skipped,
                   listeners, liveLog, via, shutdown>>

\* The steps of handleAssetRegistered.
Registered_findByPk(p) ==
    /\ h[p].pc = "reg.findByPk"
    /\ Performed(p, RegFindByPk(Store, h[p], EventOf(p, h[p].idx), Up))

Registered_create(p) ==
    /\ h[p].pc = "reg.create"
    /\ Performed(p, RegCreate(Store, h[p], EventOf(p, h[p].idx), Up))

Registered_findOne(p) ==
    /\ h[p].pc = "reg.findOne"
    /\ Performed(p, RegFindOne(Store, h[p], EventOf(p, h[p].idx), Up))

Registered_insert(p) ==
    /\ h[p].pc = "reg.insert"
    /\ Performed(p, RegInsert(Store, h[p], EventOf(p, h[p].idx), Up))

\* The steps of handleAssetTransferred.
Transferred_findByPk(p) ==
    /\ h[p].pc = "tr.findByPk"
    /\ Performed(p, TrFindByPk(Store, h[p], EventOf(p, h[p].idx), Up))

Transferred_save(p) ==
    /\ h[p].pc = "tr.save"
    /\ Performed(p, TrSave(Store, h[p], EventOf(p, h[p].idx), Up))

Transferred_findOne(p) ==
    /\ h[p].pc = "tr.findOne"
    /\ Performed(p, TrFindOne(Store, h[p], EventOf(p, h[p].idx), Up))

Transferred_getBlock(p) ==
    /\ h[p].pc = "tr.getBlock"
    /\ Performed(p, TrGetBlock(Store, h[p], EventOf(p, h[p].idx), Up))

Transferred_insert(p) ==
    /\ h[p].pc = "tr.insert"
    /\ Performed(p, TrInsert(Store, h[p], EventOf(p, h[p].idx), Up))

\* The chunk loop's await of a handler when nothing else runs: the handler
\* from its first operation to its end, with a provider whose getBlock does
\* as mode says.
SyncHandleWith(mode) ==
    /\ sync.pc = "handler"
    /\ LET r == RunHandler(Store, h["backfill"],
                           EventOf("backfill", h["backfill"].idx),
                           [Up EXCEPT !.getBlock = mode])
       IN  /\ assets' = r.st.assets
           /\ transfers' = r.st.transfers
           /\ Ended("backfill", r.h.pc)
    /\ syncLog' = [syncLog EXCEPT !.seen = @ \cup {h["backfill"].idx}]
    /\ UNCHANGED <<chain, height, isListening, cursor, last, applied, skipped,
                   listeners, liveLog, via, shutdown>>

\* The same with a provider that answers.
SyncHandle == SyncHandleWith("block")

\* The history of handler calls: the event, the store before the call and
\* whether the call threw.
Remember(idx, endPc) ==
    LET entry == [idx |-> idx, pre |-> Store, threw |-> endPc = "threw"]
    IN  IF last = <<>> THEN <<entry>> ELSE <<last[Len(last)], entry>>

\* A call of the handler of the event at chain position i, in the shape
\* process p receives it, run to its end before the next call.
Handle(p, i) ==
    /\ i \in 1..Len(chain)
    /\ LET r == RunHandler(Store, StartHandler(i, EventOf(p, i)), EventOf(p, i), Up)
       IN  /\ assets' = r.st.assets
           /\ transfers' = r.st.transfers
           /\ last' = Remember(i, r.h.pc)
    /\ applied' = [applied EXCEPT ![i] = Min(applied[i] + 1, 2)]
    /\ UNCHANGED <<chain, height, h, sync, isListening, cursor, syncLog, skipped,
                   listeners, liveLog, via, shutdown>>

\* await this.handleAssetRegistered(id, owner, description, timestamp, event)
handleAssetRegistered(p, i) ==
    /\ i \in 1..Len(chain)
    /\ chain[i].kind = "AssetRegistered"
    /\ Handle(p, i)

\* await this.handleAssetTransferred(id, newOwner, event)
handleAssetTransferred(p, i) ==
    /\ i \in 1..Len(chain)
    /\ chain[i].kind = "AssetTransferred"
    /\ Handle(p, i)

\* ------------------------------------------------------- specifications

Init ==
    /\ chain = <<>>
    /\ height = 0
    /\ assets = {}
    /\ transfers = <<>>
    /\ h = [p \in Procs |-> IdleHandler]
    /\ sync = IdleSync
    /\ isListening = FALSE
    /\ cursor = 1
    /\ last = <<>>
    /\ applied = [i \in 1..MaxTx |-> 0]
    /\ syncLog = [pre |-> EmptyStore, seen |-> {}, failed |-> {}, gap |-> NoGap,
                  ranges |-> <<>>]
    /\ skipped = FALSE
    /\ listeners = 0
    /\ liveLog = NoCall
    /\ via = [shape |-> "log.transactionHash", mode |-> "block"]
    /\ shutdown = "running"

\* The blocks a sync may be asked to start from.
FromBlocks == {0} \cup {chain[i].blockNumber : i \in 1..Len(chain)}

\* The contract's transactions, each gap blocks above the last, max in all.
Contract(gaps, max) ==
    \/ \E k \in 1..Len(AssetIds), gap \in gaps : registerNewAsset(k, gap, max)
    \/ \E k \in 1..Len(AssetIds), newOwner \in Addresses, gap \in gaps :
          transferAsset(AssetIds[k], newOwner, gap, max)

Backfill(keep) ==
    \/ \E fromBlock \in FromBlocks : CallSync(fromBlock, keep, FALSE)
    \/ SyncGetBlockNumber(keep)
    \/ SyncQueryRegistered
    \/ SyncQueryTransferred
    \/ SyncDelay

Live(keep) ==
    \/ startListening(keep)
    \/ stopListening(keep)
    \/ LiveDeliver

Handlers ==
    \/ \E p \in Procs : Registered_findByPk(p)
    \/ \E p \in Procs : Registered_create(p)
    \/ \E p \in Procs : Registered_findOne(p)
    \/ \E p \in Procs : Registered_insert(p)
    \/ \E p \in Procs : Transferred_findByPk(p)
    \/ \E p \in Procs : Transferred_save(p)
    \/ \E p \in Procs : Transferred_findOne(p)
    \/ \E p \in Procs : Transferred_getBlock(p)
    \/ \E p \in Procs : Transferred_insert(p)

\* The two controllers together: live and backfill interleave at every
\* operation.
Next == Contract({1}, MaxRaceTx) \/ Backfill(FALSE) \/ Live(FALSE) \/ Handlers

Spec == Init /\ [][Next]_vars

\* The engine alone: its two operations called in sequence, on any event of
\* the chain, in any order, any number of times.
NextSeq ==
    \/ Contract({1}, MaxTx)
    \/ \E p \in {"live", "backfill"}, i \in 1..MaxTx : handleAssetRegistered(p, i)
    \/ \E p \in {"live", "backfill"}, i \in 1..MaxTx : handleAssetTransferred(p, i)

SpecSeq == Init /\ [][NextSeq]_vars

\* The backfill alone, over a chain whose events spread over several chunks.
NextSync == Contract(BlockGaps, MaxTx) \/ Backfill(TRUE) \/ SyncHandle

SpecSync == Init /\ [][NextSync]_vars

\* ------------------------------------------------ the unchunked sync

\* for (const event of events) await this.handle...(..., event), from store st.
RECURSIVE HandleAll(_, _, _, _)
HandleAll(st, log, q, net) ==
    IF q = <<>> THEN st
    ELSE HandleAll(handleEvent(st, q[1], EventLogOf(log[q[1]]), net), log, Tail(q), net)

\* syncHistoricalEvents without chunks: one query of the AssetRegistered
\* events of the range and their handling, then the same for AssetTransferred.
syncUnchunked(st, log, fromBlock, toBlock, net) ==
    HandleAll(
        HandleAll(st, log, queryFilter(log, "AssetRegistered", fromBlock, toBlock, 1), net),
        log, queryFilter(log, "AssetTransferred", fromBlock, toBlock, 1), net)

\* ------------------------------------------------------------ properties

\* A store without the local ids of its Transfer rows.
Canon(st) ==
    [assets |-> st.assets,
     transfers |-> {st.transfers[i] : i \in 1..Len(st.transfers)}]

\* The owner column of the asset id in store st.
OwnerIn(st, id) == findByPk(st.assets, id)[1].owner

\* The positions in table rows of the Transfer rows of asset id.
RowsOf(rows, id) == {i \in 1..Len(rows) : rows[i].assetId = id}

\* The number of Transfer rows with a transaction hash.
CountHash(rows, hash) ==
    Cardinality({i \in 1..Len(rows) : rows[i].transactionHash = hash})

\* The last two handler calls were of the same event, of the given kind.
SameEventTwice(kind) ==
    /\ Len(last) = 2
    /\ last[1].idx = last[2].idx
    /\ chain[last[2].idx].kind = kind

\* C1: the same Transferred event applied twice in sequence to an existing
\* asset leaves exactly one Transfer row with its hash (one row more than
\* before when the hash was new, none added by the second application), and
\* the owner is the event's new owner after the first and after the second
\* application.
C1_TransferredTwice ==
    (SameEventTwice("AssetTransferred")
       /\ findByPk(last[1].pre.assets, chain[last[1].idx].id) # <<>>)
    => LET e == chain[last[1].idx]
       IN  /\ CountHash(transfers, e.transactionHash) = 1
           /\ ~TransferFindOne(last[1].pre.transfers, e.transactionHash)
                 => Len(transfers) = Len(last[1].pre.transfers) + 1
           /\ transfers = last[2].pre.transfers
           /\ OwnerIn(last[2].pre, e.id) = toLowerCase(e.owner)
           /\ OwnerIn(Store, e.id) = toLowerCase(e.owner)

C1_Witness ==
    /\ SameEventTwice("AssetTransferred")
    /\ findByPk(last[1].pre.assets, chain[last[1].idx].id) # <<>>
    /\ ~TransferFindOne(last[1].pre.transfers, chain[last[1].idx].transactionHash)
    /\ OwnerIn(last[1].pre, chain[last[1].idx].id) # toLowerCase(chain[last[1].idx].owner)

\* C2: the same Registered event applied twice in sequence leaves exactly one
\* Asset row with its id and at most one Transfer row of that asset with
\* fromOwner null, and the second application does not throw.
C2_RegisteredTwice ==
    SameEventTwice("AssetRegistered")
    => LET e == chain[last[1].idx]
       IN  /\ Cardinality({r \in assets : r.id = e.id}) = 1
           /\ Cardinality({i \in RowsOf(transfers, e.id) :
                              transfers[i].fromOwner = Null}) <= 1
           /\ ~last[2].threw

C2_Witness ==
    /\ SameEventTwice("AssetRegistered")
    /\ findByPk(last[1].pre.assets, chain[last[1].idx].id) = <<>>
    /\ \E i \in RowsOf(transfers, chain[last[1].idx].id) : transfers[i].fromOwner = Null

\* Row i comes before row j when the rows are ordered by blockNumber and then
\* by insertion.
Before(rows, i, j) ==
    \/ rows[i].blockNumber < rows[j].blockNumber
    \/ rows[i].blockNumber = rows[j].blockNumber /\ i < j

\* The rows of asset id that come before row j.
Earlier(rows, id, j) == {i \in RowsOf(rows, id) : Before(rows, i, j)}

\* C3 (as stated): for every asset, its Transfer rows ordered by blockNumber
\* and then by insertion form a chain: the first has fromOwner null and every
\* later one has the fromOwner that is the toOwner of the row before it.
C3_BlockOrderChain ==
    \A k \in 1..Len(AssetIds) : \A j \in RowsOf(transfers, AssetIds[k]) :
        LET E == Earlier(transfers, AssetIds[k], j)
        IN  IF E = {} THEN transfers[j].fromOwner = Null
            ELSE \E i \in E :
                    /\ \A x \in E : x = i \/ Before(transfers, x, i)
                    /\ transfers[j].fromOwner = transfers[i].toOwner

\* C4 (as stated): with no handler under way, the owner of every asset that
\* has Transfer rows is the toOwner of the latest inserted of them.
C4_OwnerIsLatestToOwner ==
    Quiet =>
      \A r \in assets :
        LET R == RowsOf(transfers, r.id)
        IN  R # {} => \E i \in R : /\ \A x \in R : x <= i
                                  /\ r.owner = transfers[i].toOwner

\* Every event of the chain handled once, in chain order, from an empty store.
RECURSIVE InChainOrder(_, _, _, _)
InChainOrder(st, log, i, net) ==
    IF i > Len(log) THEN st
    ELSE InChainOrder(handleEvent(st, i, EventLogOf(log[i]), net), log, i + 1, net)

\* The subscription has handled every event of the chain, and a sync over the
\* whole chain has handled every event of it and returned.
BothHandledAll ==
    /\ isListening /\ ~skipped /\ cursor = Len(chain) + 1 /\ h["live"].pc = "idle"
    /\ sync.pc = "returned" /\ sync.fromBlock = 0 /\ sync.currentBlock = height
    /\ sync.errors = 0

\* C5 (as stated): once live and backfill have both handled the events of the
\* chain, the store is, local ids apart, the one that handling each event
\* once in chain order gives.
C5_ConvergesToSequential ==
    BothHandledAll => Canon(Store) = Canon(InChainOrder(EmptyStore, chain, 1, Up))

\* C6: a Transferred event handled when its asset has no row leaves the store
\* as it was and does not throw.
C6_OrphanTransferred ==
    (/\ last # <<>>
     /\ chain[last[Len(last)].idx].kind = "AssetTransferred"
     /\ findByPk(last[Len(last)].pre.assets, chain[last[Len(last)].idx].id) = <<>>)
    => /\ Store = last[Len(last)].pre
       /\ ~last[Len(last)].threw

C6_Witness ==
    /\ last # <<>>
    /\ chain[last[Len(last)].idx].kind = "AssetTransferred"
    /\ findByPk(last[Len(last)].pre.assets, chain[last[Len(last)].idx].id) = <<>>
    /\ last[Len(last)].pre.assets # {}

\* C7: every Transfer row is of an asset that has an Asset row, whatever the
\* interleaving of live and backfill.
C7_TransferHasAsset ==
    \A i \in 1..Len(transfers) : \E r \in assets : r.id = transfers[i].assetId

C7_Witness ==
    \E p, q \in Procs :
        /\ p # q
        /\ h[p].pc = "tr.insert"
        /\ InProgress(q)
        /\ Len(transfers) >= 1

\* A process is about to insert a Transfer row whose hash is stored already.
InsertCollides(p) ==
    /\ h[p].pc \in {"reg.insert", "tr.insert"}
    /\ TransferFindOne(transfers, transferHashOf(EventOf(p, h[p].idx)))

\* C8: no two Transfer rows have the same transactionHash, whatever the
\* interleaving, and the insert of a row whose hash is stored is rejected.
C8_UniqueTransactionHash ==
    /\ \A i, j \in 1..Len(transfers) :
          transfers[i].transactionHash = transfers[j].transactionHash => i = j
    /\ \A p \in Procs :
          InsertCollides(p) =>
             ~HandlerStep(Store, h[p], EventOf(p, h[p].idx), Up).h.pc = "done"

C8_Witness == \E p \in Procs : InsertCollides(p)

\* No event about asset id has been handled more than once.
HandledOnce(id) == \A i \in 1..Len(chain) : chain[i].id = id => applied[i] <= 1

\* C9: when the events of an asset (its Registered event, with its
\* transaction metadata, and distinct Transferred events) are handled one
\* after the other, each once, the Transfer rows of the asset in insertion
\* order have fromOwner null first and then the toOwner of the row before.
C9_InsertionOrderChain ==
    \A k \in 1..Len(AssetIds) :
        HandledOnce(AssetIds[k]) =>
            \A j \in RowsOf(transfers, AssetIds[k]) :
                LET E == {i \in RowsOf(transfers, AssetIds[k]) : i < j}
                IN  IF E = {} THEN transfers[j].fromOwner = Null
                    ELSE \E i \in E : /\ \A x \in E : x <= i
                                      /\ transfers[j].fromOwner = transfers[i].toOwner

C9_Witness ==
    \E k \in 1..Len(AssetIds) :
        /\ HandledOnce(AssetIds[k])
        /\ Cardinality(RowsOf(transfers, AssetIds[k])) = 3

\* C10: a sync that returns without a chunk having failed leaves, local ids
\* apart, the store that the unchunked sync of the same range gives from the
\* store the sync started on.
C10_ChunkedEqualsUnchunked ==
    (sync.pc = "returned" /\ sync.errors = 0)
    => Canon(Store) =
         Canon(syncUnchunked(syncLog.pre, chain, sync.fromBlock, sync.currentBlock, Up))

C10_Witness ==
    /\ sync.pc = "returned"
    /\ sync.errors = 0
    /\ sync.startBlock > sync.fromBlock + BLOCK_CHUNK_SIZE
    /\ Len(transfers) = 3
    /\ \E i, j \in 1..Len(transfers) :
          /\ transfers[i].assetId = transfers[j].assetId
          /\ transfers[j].blockNumber >= transfers[i].blockNumber + BLOCK_CHUNK_SIZE

\* ------------------------------------------------- the failing chain source

\* Number of contract transactions, where the chain source can fail.
MaxFailTx == 2
\* The same, where a sync is run again after one that skipped a chunk.
MaxGapTx == 3

\* The backfill alone with a chain source whose getBlockNumber, queryFilter
\* and getBlock may reject: blockGaps are the distances between the blocks
\* of the transactions, modes what getBlock may do, and gaps says whether the
\* history of skipped chunks is kept.
Failing(max, blockGaps, modes, gaps) ==
    \/ Contract(blockGaps, max)
    \/ \E fromBlock \in FromBlocks : CallSync(fromBlock, TRUE, gaps)
    \/ SyncGetBlockNumber(TRUE)
    \/ SyncGetBlockNumberThrows
    \/ SyncQueryRegistered
    \/ SyncQueryTransferred
    \/ SyncQueryThrows
    \/ SyncDelay
    \/ \E mode \in modes : SyncHandleWith(mode)

NextFail == Failing(MaxFailTx, BlockGaps, {"block", "throws"}, FALSE)

SpecFail == Init /\ [][NextFail]_vars

\* Syncs run again after a sync that skipped a chunk, over a chain with one
\* transaction per chunk.
NextGap == Failing(MaxGapTx, {BLOCK_CHUNK_SIZE}, {"block"}, TRUE)

SpecGap == Init /\ [][NextGap]_vars

\* The first block of the chunk of the running sync that holds block b.
ChunkOf(b) ==
    sync.fromBlock + ((b - sync.fromBlock) \div BLOCK_CHUNK_SIZE) * BLOCK_CHUNK_SIZE

\* The chain positions of the events in the range of the running sync.
InRange ==
    {i \in 1..Len(chain) : /\ chain[i].blockNumber >= sync.fromBlock
                           /\ chain[i].blockNumber <= sync.currentBlock}

\* C11: when the range query of exactly one chunk has thrown, the sync does not
\* surface an error, and once it has returned every event of the other chunks
\* has been handled, the registrations among them being stored.
C11_OtherChunksApplied ==
    /\ syncLog.failed # {} => sync.pc # "threw"
    /\ (sync.pc = "returned" /\ sync.errors = 1 /\ Cardinality(syncLog.failed) = 1)
       => \A i \in InRange :
             ChunkOf(chain[i].blockNumber) \notin syncLog.failed
             => /\ i \in syncLog.seen
                /\ chain[i].kind = "AssetRegistered"
                   => /\ findByPk(assets, chain[i].id) # <<>>
                      /\ TransferFindOne(transfers, chain[i].transactionHash)

C11_Witness ==
    /\ sync.pc = "returned"
    /\ sync.errors = 1
    /\ Cardinality(syncLog.failed) = 1
    /\ \E i, j \in InRange :
          /\ ChunkOf(chain[i].blockNumber) \in syncLog.failed
          /\ ChunkOf(chain[j].blockNumber) > ChunkOf(chain[i].blockNumber)
          /\ j \in syncLog.seen
          /\ i \notin syncLog.seen

\* C12 (as stated): when a sync that skipped a chunk is followed by a sync from
\* the same or an earlier block that skips none, the store is, local ids apart,
\* the one a single sync of that range with no failure gives from the store
\* before the first of them.
C12_RerunRecovers ==
    (/\ sync.pc = "returned"
     /\ sync.errors = 0
     /\ syncLog.gap.open
     /\ sync.fromBlock <= syncLog.gap.from)
    => Canon(Store) =
         Canon(syncUnchunked(syncLog.gap.pre, chain, sync.fromBlock,
                             sync.currentBlock, Up))

\* C13: a sync surfaces an error only when its query of the chain height has
\* failed, and then it has issued no range query, has handled no event and
\* has left the store as it was.
C13_OnlyHeightFailureSurfaces ==
    [][(sync'.pc = "threw" /\ sync.pc # "threw")
       => /\ sync.pc = "getBlockNumber"
          /\ assets' = assets
          /\ transfers' = transfers
          /\ sync'.errors = 0
          /\ sync'.phase = "none"
          /\ sync'.startBlock = sync'.fromBlock
          /\ syncLog'.seen = {}
          /\ syncLog'.failed = {}]_vars

C13_Witness ==
    /\ sync.pc = "threw"
    /\ assets # {}
    /\ \E i \in 1..Len(chain) :
          /\ chain[i].blockNumber >= sync.fromBlock
          /\ ~TransferFindOne(transfers, chain[i].transactionHash)

\* The Registered events of the chunk the running sync is in.
RegisteredInChunk ==
    {i \in 1..Len(chain) : /\ chain[i].kind = "AssetRegistered"
                           /\ chain[i].blockNumber >= sync.startBlock
                           /\ chain[i].blockNumber <= sync.endBlock}

\* C14: when the backfill is about to handle a Transferred event of a chunk,
\* every Registered event of the chunk has been handled, and if the asset of
\* the Transferred event was registered in the chunk its row is stored.
C14_RegisteredBeforeTransferred ==
    (sync.pc = "handler" /\ sync.phase = "tr")
    => /\ RegisteredInChunk \subseteq syncLog.seen
       /\ \A i \in RegisteredInChunk :
             chain[i].id = chain[h["backfill"].idx].id
             => findByPk(assets, chain[i].id) # <<>>

C14_Witness ==
    /\ sync.pc = "handler"
    /\ sync.phase = "tr"
    /\ \E i \in RegisteredInChunk :
          /\ chain[i].id = chain[h["backfill"].idx].id
          /\ findByPk(syncLog.pre.assets, chain[i].id) = <<>>

\* ------------------------------------------------- the subscription alone

\* The callback's await of its handler when nothing else runs: the handler
\* from its first operation to its end, with a provider whose getBlock does
\* as mode says; the catch of the callback logs what the handler throws.
LiveHandleWith(mode) ==
    /\ h["live"].pc \in HandlerPcs
    /\ LET r == RunHandler(Store, h["live"], EventOf("live", h["live"].idx),
                           [Up EXCEPT !.getBlock = mode])
       IN  /\ assets' = r.st.assets
           /\ transfers' = r.st.transfers
           /\ Ended("live", r.h.pc)
    /\ UNCHANGED <<chain, height, isListening, cursor, last, applied, syncLog, skipped,
                   listeners, liveLog, via, shutdown>>

NextLive ==
    \/ Contract({1}, MaxTx)
    \/ Live(TRUE)
    \/ \E mode \in {"block", "throws"} : LiveHandleWith(mode)

SpecLive == Init /\ [][NextLive]_vars

\* C15: the listener is either idle, with no callback registered, or listening,
\* with one callback for each of the two event kinds.  startListening when idle
\* registers the two callbacks and makes it listening; when listening it does
\* nothing.  stopListening when listening removes the callbacks and makes it
\* idle; when idle it does nothing and does not call removeAllListeners.
C15_TwoStateListener ==
    /\ listeners = IF isListening THEN 2 ELSE 0
    /\ liveLog.call = "startListening"
       => /\ isListening
          /\ liveLog.did = IF liveLog.was THEN "nothing" ELSE "on"
    /\ liveLog.call = "stopListening"
       => /\ ~isListening
          /\ liveLog.did = IF liveLog.was THEN "removeAllListeners" ELSE "nothing"

C15_Witness ==
    /\ liveLog = [call |-> "startListening", was |-> TRUE, did |-> "nothing"]
    /\ listeners = 2
    /\ cursor <= Len(chain)

\* C16 (as stated): when live and backfill handle the same event and both have
\* passed the existence check, the insert that collides on transactionHash
\* ends the handler of the loser without an error.
C16_CollisionIsNoOp ==
    \A p \in Procs :
        InsertCollides(p)
        => HandlerStep(Store, h[p], EventOf(p, h[p].idx), Up).h.pc = "done"

\* The last handler call was of a Transferred event whose transaction hash
\* was stored before the call.
RedeliveredTransfer ==
    /\ last # <<>>
    /\ chain[last[Len(last)].idx].kind = "AssetTransferred"
    /\ TransferFindOne(last[Len(last)].pre.transfers,
                       chain[last[Len(last)].idx].transactionHash)

\* C18 (as stated): handling a Transferred event whose transaction hash is
\* already stored leaves the whole store, owner included, as it was.
C18_RedeliveryChangesNothing ==
    RedeliveredTransfer => Store = last[Len(last)].pre

\* C19 (as stated): when a handler called by the backfill ends with further
\* events of its query waiting, the backfill goes on to the next of them,
\* however the handler ended; when a handler called by the subscription ends,
\* the subscription stays as it was.
C19_FailureDoesNotHalt ==
    [][/\ (sync.pc = "handler" /\ sync' # sync /\ Len(sync.queue) > 1)
          => /\ sync'.pc = "handler"
             /\ sync'.queue = Tail(sync.queue)
             /\ sync'.startBlock = sync.startBlock
       /\ (h["live"].pc \in HandlerPcs /\ h'["live"].pc = "idle")
          => /\ isListening' = isListening
             /\ cursor' = cursor]_vars

\* ------------------------------------- the engine with any envelope

\* Number of contract transactions, where the handlers are called with every
\* envelope shape and every behaviour of getBlock.
MaxEnvTx == 2

\* A call of the handler of the event at chain position i, delivered in the
\* envelope of a shape, with a provider whose getBlock does as mode says, run
\* to its end before the next call.  Of the history only this call is kept.
HandleAs(i, shape, mode) ==
    /\ i \in 1..Len(chain)
    /\ LET ev == Envelope(shape, chain[i])
           r  == RunHandler(Store, StartHandler(i, ev), ev,
                            [Up EXCEPT !.getBlock = mode])
       IN  /\ assets' = r.st.assets
           /\ transfers' = r.st.transfers
           /\ last' = <<[idx |-> i, pre |-> Store, threw |-> r.h.pc = "threw"]>>
    /\ via' = [shape |-> shape, mode |-> mode]
    /\ UNCHANGED <<chain, height, h, sync, isListening, cursor, applied, syncLog,
                   skipped, listeners, liveLog, shutdown>>

\* await this.handleAssetRegistered(id, owner, description, timestamp, event)
handleAssetRegisteredAs(i, shape) ==
    /\ i \in 1..Len(chain)
    /\ chain[i].kind = "AssetRegistered"
    /\ HandleAs(i, shape, "block")

\* await this.handleAssetTransferred(id, newOwner, event)
handleAssetTransferredAs(i, shape, mode) ==
    /\ i \in 1..Len(chain)
    /\ chain[i].kind = "AssetTransferred"
    /\ HandleAs(i, shape, mode)

NextEnv ==
    \/ Contract({1}, MaxEnvTx)
    \/ \E i \in 1..MaxEnvTx, shape \in Shapes : handleAssetRegisteredAs(i, shape)
    \/ \E i \in 1..MaxEnvTx, shape \in Shapes, mode \in GetBlockModes :
          handleAssetTransferredAs(i, shape, mode)

SpecEnv == Init /\ [][NextEnv]_vars

\* The last handler call was of a Transferred event whose asset was stored
\* and whose transaction hash was not.
NewTransfer ==
    /\ last # <<>>
    /\ chain[last[Len(last)].idx].kind = "AssetTransferred"
    /\ findByPk(last[Len(last)].pre.assets, chain[last[Len(last)].idx].id) # <<>>
    /\ ~TransferFindOne(last[Len(last)].pre.transfers,
                        chain[last[Len(last)].idx].transactionHash)

\* C17 (as stated): a Transferred event handled for a stored asset and a new
\* hash inserts its Transfer row and does not throw, whatever getBlock does:
\* the row's timestamp is the block's when getBlock returns the block, and
\* the local wall clock when it returns nothing or fails.
C17_TimestampFallback ==
    NewTransfer
    => LET e == chain[last[Len(last)].idx]
       IN  /\ ~last[Len(last)].threw
           /\ \E k \in 1..Len(transfers) :
                 /\ transfers[k].transactionHash = e.transactionHash
                 /\ transfers[k].timestamp =
                       IF via.mode = "block" THEN BlockTimestamp(e.blockNumber)
                       ELSE DateNow

\* The handler of the event at chain position i run on the present store with
\* the event in the envelope of a shape: the store it leaves and how it ends.
AppliedAs(i, shape) ==
    LET ev == Envelope(shape, chain[i])
        r  == RunHandler(Store, StartHandler(i, ev), ev, Up)
    IN  [st |-> r.st, pc |-> r.h.pc]

\* C20: for every event and each of the four envelope shapes the normalizer
\* gives the event's transaction hash and block number, and handling the
\* event in any shape leaves the same store as in any other, without an
\* error; a Registered event with a new hash has its Transfer row inserted.
C20_EnvelopeShapes ==
    /\ \A i \in 1..Len(chain), shape \in Shapes :
          /\ transferHashOf(Envelope(shape, chain[i])) = chain[i].transactionHash
          /\ blockNumberOf(Envelope(shape, chain[i])) = chain[i].blockNumber
          /\ AppliedAs(i, shape).pc = "done"
          /\ AppliedAs(i, shape).st = AppliedAs(i, "log.transactionHash").st
    /\ (/\ last # <<>>
        /\ chain[last[Len(last)].idx].kind = "AssetRegistered"
        /\ ~TransferFindOne(last[Len(last)].pre.transfers,
                            chain[last[Len(last)].idx].transactionHash))
       => /\ ~last[Len(last)].threw
          /\ \E k \in 1..Len(transfers) :
                transfers[k] = RegisteredRow(PayloadOf(chain[last[Len(last)].idx]))

C20_Witness ==
    /\ last # <<>>
    /\ via.shape = "hash"
    /\ chain[last[Len(last)].idx].kind = "AssetRegistered"
    /\ ~TransferFindOne(last[Len(last)].pre.transfers,
                        chain[last[Len(last)].idx].transactionHash)
    /\ TransferFindOne(transfers, chain[last[Len(last)].idx].transactionHash)

\* ------------------------------ the engine with envelopes lacking metadata

\* The handlers called with an envelope that lacks metadata and a provider
\* whose getBlock rejects, and with the envelope of the subscription and a
\* provider that answers.
NextDrop ==
    \/ Contract({1}, MaxEnvTx)
    \/ \E i \in 1..MaxEnvTx, shape \in DroppedShapes \cup {"log.transactionHash"} :
          handleAssetRegisteredAs(i, shape)
    \/ \E i \in 1..MaxEnvTx : handleAssetTransferredAs(i, "log.transactionHash", "block")
    \/ \E i \in 1..MaxEnvTx, shape \in DroppedShapes :
          handleAssetTransferredAs(i, shape, "throws")

SpecDrop == Init /\ [][NextDrop]_vars

\* The last handler call was made with an envelope that lacks metadata.
DroppedCall == last # <<>> /\ via.shape \in DroppedShapes

\* The Asset row a Registered event creates.
AssetRowOf(e) ==
    [id |-> e.id, owner |-> toLowerCase(e.owner), description |-> e.description,
     timestamp |-> e.timestamp]

\* C21: an event handled in an envelope that lacks the transaction hash or the
\* block number inserts no Transfer row and raises no error, whatever getBlock
\* would do; a Registered event still creates the Asset row when there is
\* none, and a Transferred event of a stored asset still sets its owner to the
\* new owner and changes nothing else.
C21_DroppedWithoutMetadata ==
    DroppedCall
    => LET c == last[Len(last)]
           e == chain[c.idx]
           found == findByPk(c.pre.assets, e.id)
       IN  /\ ~c.threw
           /\ transfers = c.pre.transfers
           /\ e.kind = "AssetRegistered"
              => assets = IF found = <<>> THEN c.pre.assets \cup {AssetRowOf(e)}
                          ELSE c.pre.assets
           /\ e.kind = "AssetTransferred"
              => assets = IF found = <<>> THEN c.pre.assets
                          ELSE (c.pre.assets \ {found[1]})
                                 \cup {[found[1] EXCEPT !.owner = toLowerCase(e.owner)]}

C21_Witness ==
    /\ DroppedCall
    /\ via.shape = "log.noBlockNumber"
    /\ via.mode = "throws"
    /\ chain[last[Len(last)].idx].kind = "AssetTransferred"
    /\ findByPk(last[Len(last)].pre.assets, chain[last[Len(last)].idx].id) # <<>>
    /\ OwnerIn(last[Len(last)].pre, chain[last[Len(last)].idx].id)
          # toLowerCase(chain[last[Len(last)].idx].owner)
    /\ Len(transfers) = 0

\* The Registered events a caller can hand to the engine for asset id: any
\* owner, description and timestamp, with the metadata of a transaction of the
\* chain or of one the store has not seen.
RegisteredEvents(id) ==
    {EventLogOf(LogEntry("AssetRegistered", id, owner, args[1], args[2], n, height + 1)) :
        owner \in Addresses,
        args \in {<<Description, BlockTimestamp(1)>>,
                  <<"Other", BlockTimestamp(height + 1)>>},
        n \in {1, Len(chain) + 1}}

\* The last handler call was of a Registered event whose asset was stored.
RegisteredAgain ==
    /\ last # <<>>
    /\ chain[last[Len(last)].idx].kind = "AssetRegistered"
    /\ findByPk(last[Len(last)].pre.assets, chain[last[Len(last)].idx].id) # <<>>

\* C22: a Registered event handled when its asset has a row leaves the Asset
\* table as it was and does not throw, also when Transferred events have
\* changed the owner since; and on every store, handling a Registered event
\* with any arguments for a stored asset leaves the Asset table as it is and
\* does not throw.
C22_ExistingAssetUntouched ==
    /\ RegisteredAgain
       => /\ assets = last[Len(last)].pre.assets
          /\ ~last[Len(last)].threw
    /\ \A r \in assets : \A ev \in RegisteredEvents(r.id) :
          LET end == RunHandler(Store, StartHandler(0, ev), ev, Up)
          IN  /\ end.st.assets = assets
              /\ end.h.pc = "done"

C22_Witness ==
    /\ RegisteredAgain
    /\ OwnerIn(Store, chain[last[Len(last)].idx].id)
          # toLowerCase(chain[last[Len(last)].idx].owner)
    /\ \E i \in 1..Len(transfers) :
          /\ transfers[i].assetId = chain[last[Len(last)].idx].id
          /\ transfers[i].fromOwner # Null

\* The ids of the Asset rows.
IdsOf(rows) == {r.id : r \in rows}

\* C23: in every reachable state no two Asset rows have the same id, and no
\* step of live, backfill or the handlers, however interleaved, removes an
\* id from the Asset table.
C23_OneRowPerIdNeverDeleted ==
    /\ [](\A r1, r2 \in assets : r1.id = r2.id => r1 = r2)
    /\ [][IdsOf(assets) \subseteq IdsOf(assets')]_vars

C23_Witness ==
    \E p, q \in Procs :
        /\ p # q
        /\ h[p].pc = "reg.create"
        /\ findByPk(assets, chain[h[p].idx].id) # <<>>
        /\ OwnerIn(Store, chain[h[p].idx].id) # toLowerCase(chain[h[p].idx].owner)

\* C24: every Transfer row present before a step of live, backfill or the
\* handlers is present after it, at the same place and with the same fields.
C24_TransferRowsImmutable ==
    [][\A i \in 1..Len(transfers) :
          /\ i <= Len(transfers')
          /\ transfers'[i] = transfers[i]]_vars

C24_Witness ==
    \E p \in Procs :
        /\ h[p].pc = "tr.insert"
        /\ \E i \in 1..Len(transfers) :
              /\ transfers[i].transactionHash = chain[h[p].idx].transactionHash
              /\ transfers[i] # TransferredRow(h[p], EventOf(p, h[p].idx))

\* An address with no upper-case letter.
IsLowerCase(s) == s \in {"0xaa", "0xbb", "0xcc"}

\* C25: in every reachable state the owner of every Asset row and the toOwner
\* and the non-null fromOwner of every Transfer row are lower-case addresses,
\* though the chain reports every address in mixed case.
C25_AddressesLowerCase ==
    /\ \A r \in assets : IsLowerCase(r.owner)
    /\ \A i \in 1..Len(transfers) :
          /\ IsLowerCase(transfers[i].toOwner)
          /\ transfers[i].fromOwner # Null => IsLowerCase(transfers[i].fromOwner)

C25_Witness ==
    /\ \A i \in 1..Len(chain) : ~IsLowerCase(chain[i].owner)
    /\ \E i \in 1..Len(transfers) : transfers[i].fromOwner # Null
    /\ \E p \in Procs : InProgress(p)

\* ------------------------------------------------- the shutdown of the host

\* Number of contract transactions, where the hosting process is shut down.
MaxStopTx == 2

\* The process receives SIGINT or SIGTERM: the handler calls stopListening and
\* issues sequelize.close(), after which the store rejects every operation.
Signal ==
    /\ shutdown = "running"
    /\ shutdown' = "closing"
    /\ StopListener(FALSE)

\* sequelize.close() has resolved: process.exit(0).
Exit ==
    /\ shutdown = "closing"
    /\ shutdown' = "exited"
    /\ UNCHANGED <<chain, height, assets, transfers, h, sync, isListening, cursor,
                   last, applied, syncLog, skipped, listeners, liveLog, via>>

\* The handler process p awaits issues its store operation while the store is
\* closing: the operation rejects and the handler throws.
HandleClosed(p) ==
    /\ shutdown = "closing"
    /\ h[p].pc \in HandlerPcs
    /\ Ended(p, "threw")
    /\ UNCHANGED <<chain, height, assets, transfers, isListening, cursor,
                   last, applied, syncLog, skipped, listeners, liveLog, via,
                   shutdown>>

\* The process runs.
Running == shutdown = "running"

\* The process is between the shutdown signal and its exit: the promises and
\* timers the backfill awaits still resolve.
Closing == shutdown = "closing"

NextStop ==
    \/ Running /\ Contract(BlockGaps, MaxStopTx)
    \/ Running /\ Backfill(FALSE)
    \/ Running /\ SyncHandle
    \/ Running /\ Live(FALSE)
    \/ Running /\ LiveHandleWith("block")
    \/ Signal
    \/ Closing /\ SyncGetBlockNumber(FALSE)
    \/ Closing /\ SyncQueryRegistered
    \/ Closing /\ SyncQueryTransferred
    \/ Closing /\ SyncDelay
    \/ \E p \in Procs : HandleClosed(p)
    \/ Exit

SpecStop == Init /\ [][NextStop]_vars

\* The chunk loop enters its body: a chunk is started.
ChunkStarts == sync.pc # "queryRegistered" /\ sync'.pc = "queryRegistered"

\* C26 (as stated): a step that stops the listener leaves the backfill where
\* it is, the chunk and the handler in flight included, and once the process
\* has received a shutdown signal the backfill starts no further chunk.
C26_StopAndShutdown ==
    [][/\ (isListening /\ ~isListening')
          => /\ sync' = sync
             /\ h'["backfill"] = h["backfill"]
       /\ shutdown # "running" => ~ChunkStarts]_vars

\* ---------------------------------- the unchunked sync, step by step

\* The environment calls the unchunked syncHistoricalEvents(fromBlock); the
\* call issues the query of the AssetRegistered events.
CallSyncUnchunked(fromBlock) ==
    /\ sync.pc \in {"idle", "returned", "threw"}
    /\ sync' = [IdleSync EXCEPT !.pc = "u.queryRegistered", !.fromBlock = fromBlock,
                                !.startBlock = fromBlock]
    /\ syncLog' = [syncLog EXCEPT !.pre = Store, !.seen = {}, !.failed = {}]
    /\ UNCHANGED <<chain, height, assets, transfers, h, isListening, cursor,
                   last, applied, skipped, listeners, liveLog, via, shutdown>>

\* The events of a query are handled one after the other; with none left the
\* sync goes on to the AssetTransferred query, or returns.
WithQueueUnchunked(s, phase, q) ==
    IF q # <<>>
    THEN [sync |-> [s EXCEPT !.pc = "u.handler", !.phase = phase, !.queue = q],
          h    |-> StartHandler(q[1], EventLogOf(chain[q[1]]))]
    ELSE [sync |-> [s EXCEPT !.pc = IF phase = "reg" THEN "u.queryTransferred"
                                    ELSE "returned",
                             !.phase = phase, !.queue = <<>>],
          h    |-> IdleHandler]

\* The catch of the unchunked sync logging the error and going on.
UnchunkedCatch_Continue(s) ==
    [s EXCEPT !.errors = s.errors + 1,
              !.pc = IF s.pc = "u.queryRegistered" THEN "u.queryTransferred"
                     ELSE "returned"]

\* catch (error) { console.error(...); throw error } around the whole sync.
UnchunkedCatch(s) == [s EXCEPT !.errors = s.errors + 1, !.pc = "threw"]

\* const registeredEvents = await this.contract.queryFilter(registeredFilter, fromBlock)
UnchunkedQueryRegistered ==
    /\ sync.pc = "u.queryRegistered"
    /\ LET r == WithQueueUnchunked(sync, "reg",
                   queryFilter(chain, "AssetRegistered", sync.fromBlock, height, 1))
       IN  /\ sync' = r.sync
           /\ h' = [h EXCEPT !["backfill"] = r.h]
    /\ UNCHANGED <<chain, height, assets, transfers, isListening, cursor,
                   last, applied, syncLog, skipped, listeners, liveLog, via,
                   shutdown>>

\* const transferredEvents = await this.contract.queryFilter(transferredFilter, fromBlock)
UnchunkedQueryTransferred ==
    /\ sync.pc = "u.queryTransferred"
    /\ LET r == WithQueueUnchunked(sync, "tr",
                   queryFilter(chain, "AssetTransferred", sync.fromBlock, height, 1))
       IN  /\ sync' = r.sync
           /\ h' = [h EXCEPT !["backfill"] = r.h]
    /\ UNCHANGED <<chain, height, assets, transfers, isListening, cursor,
                   last, applied, syncLog, skipped, listeners, liveLog, via,
                   shutdown>>

\* A queryFilter of the unchunked sync rejects.
UnchunkedQueryThrows ==
    /\ sync.pc \in {"u.queryRegistered", "u.queryTransferred"}
    /\ sync' = UnchunkedCatch(sync)
    /\ UNCHANGED <<chain, height, assets, transfers, h, isListening, cursor,
                   last, applied, syncLog, skipped, listeners, liveLog, via,
                   shutdown>>

\* The unchunked sync's await of a handler: the handler from its first
\* operation to its end, with a provider whose getBlock does as mode says.
UnchunkedHandleWith(mode) ==
    /\ sync.pc = "u.handler"
    /\ LET r == RunHandler(Store, h["backfill"],
                           EventOf("backfill", h["backfill"].idx),
                           [Up EXCEPT !.getBlock = mode])
           n == IF r.h.pc = "threw"
                THEN [sync |-> UnchunkedCatch(sync), h |-> IdleHandler]
                ELSE WithQueueUnchunked(sync, sync.phase, Tail(sync.queue))
       IN  /\ assets' = r.st.assets
           /\ transfers' = r.st.transfers
           /\ sync' = n.sync
           /\ h' = [h EXCEPT !["backfill"] = n.h]
    /\ syncLog' = [syncLog EXCEPT !.seen = @ \cup {h["backfill"].idx}]
    /\ UNCHANGED <<chain, height, isListening, cursor, last, applied, skipped,
                   listeners, liveLog, via, shutdown>>

NextUnchunked ==
    \/ Contract({1}, MaxTx)
    \/ \E fromBlock \in FromBlocks : CallSyncUnchunked(fromBlock)
    \/ UnchunkedQueryRegistered
    \/ UnchunkedQueryTransferred
    \/ UnchunkedQueryThrows
    \/ \E mode \in {"block", "throws"} : UnchunkedHandleWith(mode)

SpecUnchunked == Init /\ [][NextUnchunked]_vars

\* The unchunked sync has thrown at a query: the first or the second.
ThrewAtQuery(phase) ==
    /\ sync.pc = "threw"
    /\ sync.phase = phase
    /\ sync.queue = <<>>

\* C27: in the unchunked sync every failure surfaces: the sync ends by
\* throwing.  When the AssetRegistered query fails, no event is handled and
\* the store is as the sync found it; when the AssetTransferred query fails,
\* only AssetRegistered events have been handled and no Transfer row of an
\* AssetTransferred event has been added.
C27_UnchunkedSurfaces ==
    /\ sync.errors > 0 => sync.pc = "threw"
    /\ ThrewAtQuery("none") => (syncLog.seen = {} /\ Store = syncLog.pre)
    /\ ThrewAtQuery("reg")
       => /\ \A i \in syncLog.seen : chain[i].kind = "AssetRegistered"
          /\ \A i \in 1..Len(chain) :
                (/\ chain[i].kind = "AssetTransferred"
                 /\ ~TransferFindOne(syncLog.pre.transfers, chain[i].transactionHash))
                => ~TransferFindOne(transfers, chain[i].transactionHash)

C27_Witness ==
    /\ ThrewAtQuery("reg")
    /\ syncLog.seen # {}
    /\ \E i \in 1..Len(chain) :
          /\ chain[i].kind = "AssetTransferred"
          /\ chain[i].blockNumber >= sync.fromBlock
          /\ findByPk(assets, chain[i].id) # <<>>
          /\ ~TransferFindOne(transfers, chain[i].transactionHash)

\* ------------------------------------------------- the ranges of a sync

\* The backfill alone, called from any block, one above the chain's height
\* included, over a chain that grows while it runs and with range queries
\* that may reject.
NextRange ==
    \/ Contract(BlockGaps, MaxFailTx)
    \/ \E fromBlock \in FromBlocks \cup {height + 1} : CallSync(fromBlock, TRUE, FALSE)
    \/ SyncGetBlockNumber(TRUE)
    \/ SyncQueryRegistered
    \/ SyncQueryTransferred
    \/ SyncQueryThrows
    \/ SyncDelay
    \/ SyncHandle

SpecRange == Init /\ [][NextRange]_vars

\* C28: the block ranges a sync has queried are in ascending order, each
\* starting one block above the end of the one before, the first at
\* fromBlock; each spans at least one and at most BLOCK_CHUNK_SIZE blocks
\* and none goes above the height the sync captured, however the chain has
\* grown since; a sync that has returned has queried up to the captured
\* height, and no range at all when fromBlock is above it.
C28_RangesPartition ==
    LET R == syncLog.ranges
    IN  /\ \A k \in 1..Len(R) :
              /\ R[k][1] <= R[k][2]
              /\ R[k][2] - R[k][1] + 1 <= BLOCK_CHUNK_SIZE
              /\ R[k][2] <= sync.currentBlock
              /\ R[k][1] = IF k = 1 THEN sync.fromBlock ELSE R[k - 1][2] + 1
        /\ sync.pc = "returned"
           => IF sync.fromBlock > sync.currentBlock THEN R = <<>>
              ELSE R # <<>> /\ R[Len(R)][2] = sync.currentBlock

C28_Witness ==
    /\ sync.pc = "returned"
    /\ Len(syncLog.ranges) = 2
    /\ syncLog.ranges[2][2] < syncLog.ranges[2][1] + BLOCK_CHUNK_SIZE - 1
    /\ height > sync.currentBlock
    /\ syncLog.failed # {}

C28_WitnessAboveHeight ==
    /\ sync.pc = "returned"
    /\ sync.fromBlock > sync.currentBlock
    /\ sync.currentBlock > 0

\* ------------------------------------ the subscription, callbacks unawaited

\* The subscription calls the callback of the next event whether or not the
\* callback of an earlier event has returned: contract.on registers async
\* functions, and neither they nor their caller wait for one another.  Each
\* callback runs up to the first operation of its handler when it is called.
LiveDeliverUnawaited ==
    /\ isListening
    /\ cursor <= Len(chain)
    /\ \E p \in Callbacks :
          /\ h[p].pc = "idle"
          /\ p = "live2" => h["live"].pc # "idle"
          /\ h' = [h EXCEPT ![p] = StartHandler(cursor, PayloadOf(chain[cursor]))]
    /\ cursor' = cursor + 1
    /\ UNCHANGED <<chain, height, assets, transfers, sync, isListening,
                   last, applied, syncLog, skipped,
                   listeners, liveLog, via, shutdown>>

NextOverlap ==
    \/ Contract({1}, MaxRaceTx)
    \/ startListening(FALSE)
    \/ stopListening(FALSE)
    \/ LiveDeliverUnawaited
    \/ Handlers

SpecOverlap == Init /\ [][NextOverlap]_vars

\* C29 (as stated): of the events the subscription delivers, the handler of
\* one has ended before the handler of the next is called: no two handlers
\* called by the subscription are under way at once.
C29_LiveSequential ==
    Cardinality({p \in Callbacks : h[p].pc # "idle"}) <= 1

\* The chain position of the event with a transaction hash.
EventWithHash(hash) ==
    CHOOSE i \in 1..Len(chain) : chain[i].transactionHash = hash

\* The owner the contract held for the asset of the event at chain position i
\* just before that event, as the store writes addresses.
OwnerBefore(i) == toLowerCase(ContractOwner(SubSeq(chain, 1, i - 1), chain[i].id))

\* C30 (as stated): every Transfer row of a Transferred event has as fromOwner
\* the owner the asset had just before that transfer, which differs from its
\* toOwner, however live and backfill interleave on the same event.
C30_FromOwnerIsPreviousOwner ==
    \A k \in 1..Len(transfers) :
        transfers[k].fromOwner # Null
        => /\ transfers[k].fromOwner = OwnerBefore(EventWithHash(transfers[k].transactionHash))
           /\ transfers[k].fromOwner # transfers[k].toOwner

\* C31 (as stated): when the handler of a Transferred event throws, the store
\* is as it was before the call: the owner of the asset has not been changed
\* without a Transfer row that records the change.
C31_FailureLeavesStore ==
    (/\ last # <<>>
     /\ chain[last[Len(last)].idx].kind = "AssetTransferred"
     /\ last[Len(last)].threw)
    => Store = last[Len(last)].pre

\* ------------------------------- the engine with events of block 0

\* The handlers called with the envelope of the subscription and with
\* envelopes whose block number is 0, and a provider that answers.
NextZero ==
    \/ Contract({1}, MaxEnvTx)
    \/ \E i \in 1..MaxEnvTx, shape \in ZeroShapes \cup {"log.transactionHash"} :
          handleAssetRegisteredAs(i, shape)
    \/ \E i \in 1..MaxEnvTx, shape \in ZeroShapes \cup {"log.transactionHash"} :
          handleAssetTransferredAs(i, shape, "block")

SpecZero == Init /\ [][NextZero]_vars

\* C32 (as stated): a Registered event, or a Transferred event of a stored
\* asset, handled in an envelope that carries a transaction hash and a block
\* number, 0 included, when no Transfer row has that hash, gets a Transfer
\* row with that hash and that block number.
C32_RowForEveryBlockNumber ==
    LET c == last[Len(last)]
        e == chain[c.idx]
        ev == Envelope(via.shape, e)
    IN  (/\ last # <<>>
         /\ e.kind = "AssetTransferred" => findByPk(c.pre.assets, e.id) # <<>>
         /\ transferHashOf(ev) # NoString
         /\ blockNumberOf(ev) # NoNumber
         /\ ~TransferFindOne(c.pre.transfers, transferHashOf(ev)))
        => \E k \in 1..Len(transfers) :
              /\ transfers[k].transactionHash = transferHashOf(ev)
              /\ transfers[k].blockNumber = blockNumberOf(ev)

\* ------------------------ registrations with any behaviour of getBlock

\* await this.handleAssetRegistered(...) with a provider whose getBlock does
\* as mode says.
handleAssetRegisteredWith(i, shape, mode) ==
    /\ i \in 1..Len(chain)
    /\ chain[i].kind = "AssetRegistered"
    /\ HandleAs(i, shape, mode)

NextReg ==
    \/ Contract({1}, MaxEnvTx)
    \/ \E i \in 1..MaxEnvTx, shape \in Shapes, mode \in GetBlockModes :
          handleAssetRegisteredWith(i, shape, mode)
    \/ \E i \in 1..MaxEnvTx : handleAssetTransferredAs(i, "transactionHash", "block")

SpecReg == Init /\ [][NextReg]_vars

\* The last handler call was of a Registered event whose transaction hash
\* was not stored.
NewRegistration ==
    /\ last # <<>>
    /\ chain[last[Len(last)].idx].kind = "AssetRegistered"
    /\ ~TransferFindOne(last[Len(last)].pre.transfers,
                        chain[last[Len(last)].idx].transactionHash)

\* C33: the handler of a Registered event with a new hash adds one Transfer
\* row, with fromOwner null, toOwner the event's owner in lower case, the
\* envelope's block number and the event's own timestamp, and does so
\* whatever provider.getBlock would do: it does not call it.
C33_RegistrationRow ==
    NewRegistration
    => LET c == last[Len(last)]
           e == chain[c.idx]
       IN  /\ ~c.threw
           /\ transfers = Append(c.pre.transfers,
                  [assetId |-> e.id, fromOwner |-> Null,
                   toOwner |-> toLowerCase(e.owner),
                   blockNumber |-> e.blockNumber,
                   transactionHash |-> e.transactionHash,
                   timestamp |-> e.timestamp])

C33_Witness ==
    /\ NewRegistration
    /\ via.mode = "null"
    /\ via.shape = "hash"
    /\ last[Len(last)].pre.transfers # <<>>
    /\ Len(transfers) = Len(last[Len(last)].pre.transfers) + 1

\* The last handler call was of a Registered event, delivered with its
\* metadata, whose asset was stored and whose transaction hash was not.
RegisteredWithoutRow ==
    /\ NewRegistration
    /\ via.shape \in Shapes
    /\ findByPk(last[Len(last)].pre.assets, chain[last[Len(last)].idx].id) # <<>>

\* C34: when a Registered event is handled with its metadata while its asset
\* is stored and its Transfer row is not (an earlier delivery lacked the
\* metadata), the Asset table is left as it was, the call does not throw,
\* and the missing Transfer row is added with fromOwner null.
C34_MissingRowInserted ==
    RegisteredWithoutRow
    => LET c == last[Len(last)]
           e == chain[c.idx]
       IN  /\ ~c.threw
           /\ assets = c.pre.assets
           /\ Len(transfers) = Len(c.pre.transfers) + 1
           /\ transfers[Len(transfers)].transactionHash = e.transactionHash
           /\ transfers[Len(transfers)].assetId = e.id
           /\ transfers[Len(transfers)].fromOwner = Null
           /\ transfers[Len(transfers)].toOwner = toLowerCase(e.owner)

C34_Witness ==
    /\ RegisteredWithoutRow
    /\ OwnerIn(Store, chain[last[Len(last)].idx].id)
          # toLowerCase(chain[last[Len(last)].idx].owner)
    /\ Len(transfers) = 1

\* The handler operation that a step of the store belongs to: the operation
\* the one handler that moved was at.
InsertedAt(pc) ==
    \E p \in Procs : h'[p] # h[p] /\ h[p].pc = pc

\* C35: a Transfer row has fromOwner null if and only if handleAssetRegistered
\* inserted it; every row handleAssetTransferred inserts has a fromOwner that
\* is not null.  Rows are added one at a time by one of the two inserts, and
\* in every state the rows with fromOwner null are those of Registered events.
C35_NullFromOwnerIffRegistration ==
    /\ [](\A k \in 1..Len(transfers) :
            transfers[k].fromOwner = Null
            <=> chain[EventWithHash(transfers[k].transactionHash)].kind = "AssetRegistered")
    /\ [][transfers' # transfers
           => /\ Len(transfers') = Len(transfers) + 1
              /\ SubSeq(transfers', 1, Len(transfers)) = transfers
              /\ InsertedAt("reg.insert") \/ InsertedAt("tr.insert")
              /\ transfers'[Len(transfers')].fromOwner = Null
                    <=> InsertedAt("reg.insert")]_vars

C35_Witness ==
    /\ \E k \in 1..Len(transfers) :
          /\ transfers[k].fromOwner = Null
          /\ chain[EventWithHash(transfers[k].transactionHash)].kind = "AssetRegistered"
    /\ \E k \in 1..Len(transfers) :
          /\ transfers[k].fromOwner # Null
          /\ chain[EventWithHash(transfers[k].transactionHash)].kind = "AssetTransferred"

\* The callbacks registered for one event kind: startListening registers one
\* for each of the two kinds in the same call.
ListenersOf(kind) == listeners \div 2

\* C36: whatever calls of startListening and stopListening have been made, each
\* event kind has at most one callback registered, and a callback is
\* registered exactly when isListening is true.
C36_OneCallbackPerKind ==
    \A kind \in {"AssetRegistered", "AssetTransferred"} :
        /\ ListenersOf(kind) <= 1
        /\ ListenersOf(kind) * 2 = listeners
        /\ ListenersOf(kind) = 1 <=> isListening

\* startListening called again after a stopListening that ended a listening
\* in which an event was handled.
C36_Witness ==
    /\ liveLog = [call |-> "startListening", was |-> FALSE, did |-> "on"]
    /\ assets # {}
    /\ ListenersOf("AssetRegistered") = 1
    /\ ListenersOf("AssetTransferred") = 1

\* ------------------------------------------------- termination of the sync

\* handleAssetTransferred: provider.getBlock(blockNumber) rejects.
Transferred_getBlockThrows(p) ==
    /\ h[p].pc = "tr.getBlock"
    /\ Performed(p, TrGetBlock(Store, h[p], EventOf(p, h[p].idx),
                               [Up EXCEPT !.getBlock = "throws"]))

\* The continuation syncHistoricalEvents is waiting for: the awaited call of
\* the provider or the contract, or the awaited operation of the handler it
\* called, returns or throws.
SyncStep ==
    \/ SyncGetBlockNumber(TRUE)
    \/ SyncGetBlockNumberThrows
    \/ SyncQueryRegistered
    \/ SyncQueryTransferred
    \/ SyncQueryThrows
    \/ SyncDelay
    \/ Registered_findByPk("backfill")
    \/ Registered_create("backfill")
    \/ Registered_findOne("backfill")
    \/ Registered_insert("backfill")
    \/ Transferred_findByPk("backfill")
    \/ Transferred_save("backfill")
    \/ Transferred_findOne("backfill")
    \/ Transferred_getBlock("backfill")
    \/ Transferred_getBlockThrows("backfill")
    \/ Transferred_insert("backfill")

\* The sync called again and again while the chain grows by a transaction
\* every BLOCK_CHUNK_SIZE blocks, with failing calls.
NextTerm ==
    \/ Contract({BLOCK_CHUNK_SIZE}, MaxFailTx)
    \/ \E fromBlock \in FromBlocks : CallSync(fromBlock, TRUE, FALSE)
    \/ SyncGetBlockNumber(TRUE)
    \/ SyncGetBlockNumberThrows
    \/ SyncQueryRegistered
    \/ SyncQueryTransferred
    \/ SyncQueryThrows
    \/ SyncDelay
    \/ Registered_findByPk("backfill")
    \/ Registered_create("backfill")
    \/ Registered_findOne("backfill")
    \/ Registered_insert("backfill")
    \/ Transferred_findByPk("backfill")
    \/ Transferred_save("backfill")
    \/ Transferred_findOne("backfill")
    \/ Transferred_getBlock("backfill")
    \/ Transferred_getBlockThrows("backfill")
    \/ Transferred_insert("backfill")

\* Every awaited call comes back: the event loop resumes a continuation that
\* stays ready.
SpecTerm == Init /\ [][NextTerm]_vars /\ WF_vars(SyncStep)

\* Between the loop test and the next loop test.
InChunk(s) == s.pc \in {"queryRegistered", "queryTransferred", "handler", "delay"}

\* C37: every call of syncHistoricalEvents ends, by returning or by throwing;
\* every pass of the chunk loop, the failed ones included, ends with startBlock
\* advanced by BLOCK_CHUNK_SIZE, and the call returns only with startBlock
\* above the height it captured.
C37_SyncTerminates ==
    /\ (sync.pc = "getBlockNumber") ~> (sync.pc \in {"returned", "threw"})
    /\ [](sync.pc = "returned" => sync.startBlock > sync.currentBlock)
    /\ [][/\ InChunk(sync) /\ sync' # sync /\ sync'.pc \in {"queryRegistered", "returned"}
             => sync'.startBlock = sync.startBlock + BLOCK_CHUNK_SIZE
          /\ InChunk(sync) /\ InChunk(sync') /\ sync'.pc # "queryRegistered"
             => sync'.startBlock = sync.startBlock]_vars

\* A sync of more than one chunk, one of which failed, has returned.
C37_Witness ==
    /\ sync.pc = "returned"
    /\ sync.errors > 0
    /\ Len(syncLog.ranges) >= 2
    /\ sync.startBlock > sync.currentBlock
    /\ sync.startBlock >= sync.fromBlock + 2 * BLOCK_CHUNK_SIZE

\* --------------------------------------------- the start of the process

MaxBootTx == 2

\* Values of the environment variable SYNC_FROM_BLOCK; NoString when it is
\* not set or empty.
SyncFromBlockValues == {NoString, "0", "1", "11", "0.5", "abc"}

\* const syncFromBlock = process.env.SYNC_FROM_BLOCK || 0, then
\* syncFromBlock > 0: the string is converted to a number, NaN for "abc".
SyncFromBlockPositive(v) == v \in {"1", "11", "0.5"}

\* parseInt(syncFromBlock) of a value that passed the test above.
parseInt(v) ==
    CASE v = "1" -> 1
      [] v = "11" -> 11
      [] v = "0.5" -> 0
      [] OTHER -> 0

\* The start-up code has called nothing on its EventListener yet.
BootPending == sync.pc = "idle" /\ liveLog = NoCall

\* The start-up code going on to startListening once the sync is called.
SyncAwaited_NotAwaited == sync.pc \notin {"idle"} /\ liveLog = NoCall

\* await eventListener.syncHistoricalEvents(...) has resolved and the
\* start-up code has not gone further.
SyncAwaited == sync.pc = "returned" /\ liveLog = NoCall

\* if (syncFromBlock > 0) { await eventListener.syncHistoricalEvents(parseInt(syncFromBlock)) }
BootSync(v) ==
    /\ BootPending
    /\ SyncFromBlockPositive(v)
    /\ CallSync(parseInt(v), TRUE, FALSE)

\* await eventListener.startListening() when syncFromBlock > 0 is false.
BootListenNoSync(v) ==
    /\ BootPending
    /\ ~SyncFromBlockPositive(v)
    /\ startListening(TRUE)

\* await eventListener.startListening() after the awaited sync.  When the
\* sync throws the catch logs and startListening is not reached.
BootListenAfterSync ==
    /\ SyncAwaited
    /\ startListening(TRUE)

\* The process from its start: the chain has its transactions at any time,
\* the start-up code runs once, the sync and the handlers run at their awaits.
NextBoot ==
    \/ Contract(BlockGaps, MaxBootTx)
    \/ \E v \in SyncFromBlockValues : BootSync(v)
    \/ \E v \in SyncFromBlockValues : BootListenNoSync(v)
    \/ BootListenAfterSync
    \/ SyncGetBlockNumber(TRUE)
    \/ SyncGetBlockNumberThrows
    \/ SyncQueryRegistered
    \/ SyncQueryTransferred
    \/ SyncQueryThrows
    \/ SyncDelay
    \/ LiveDeliver
    \/ Handlers

SpecBoot == Init /\ [][NextBoot]_vars

\* C38: in the process, startListening has been called only if the sync was
\* not asked for or has returned; no handler of a subscription callback runs
\* while the sync runs or while a handler called by the sync runs; and once
\* the sync has thrown the listener is not listening.
C38_LiveAfterSync ==
    /\ (isListening \/ liveLog # NoCall \/ listeners > 0)
       => sync.pc \in {"idle", "returned"}
    /\ (\E p \in Callbacks : h[p].pc # "idle")
       => /\ h["backfill"].pc = "idle"
          /\ sync.pc \in {"idle", "returned"}
    /\ sync.pc = "threw" => ~isListening /\ listeners = 0 /\ cursor = 1

\* A subscription callback handles an event after a sync that stored an
\* asset has returned.
C38_Witness ==
    /\ sync.pc = "returned"
    /\ isListening
    /\ \E p \in Callbacks : InProgress(p)
    /\ assets # {}
    /\ syncLog.ranges # <<>>

====
